---- MODULE Spec2Model ----
(***************************************************************************)
(* A model of the gb-rs emulation core: the console (CPU registers, the    *)
(* memory bus, interrupt and timer registers), the cartridge mappers and   *)
(* the PPU, translated from src/src/app/gbemu/console.rs,                  *)
(* src/src/app/gbemu/ppu.rs, src/src/mappers/*.rs and the frame driver of  *)
(* src/src/app/gbemu.rs.                                                   *)
(*                                                                         *)
(* Conventions.                                                            *)
(*  - A Rust struct is a record with the fields of the struct; a method    *)
(*    taking &mut self is an operator from the record to the new record.   *)
(*  - A byte array that the code creates zero-filled ([0; N]) is a         *)
(*    function whose domain holds exactly the non-zero cells (Get/Set).    *)
(*  - Integer arithmetic wraps at the width of the Rust type (u8: % 256,   *)
(*    u16: % 65536).  The interpreter relies on wrapping (DEC adds         *)
(*    u8::MAX, a backward JR adds 0xFFxx to the program counter), so the   *)
(*    model is the build without overflow checks.                          *)
(*  - panic!() and an index out of bounds end the program: the record's    *)
(*    field panicked becomes TRUE and no operation acts on it any more.    *)
(***************************************************************************)
EXTENDS Integers, Sequences, FiniteSets, TLC

VARIABLES
    console,    \* the GBConsole value (console.rs:7-60)
    ret,        \* the value returned by the last call on the console
    last_call,  \* the name of the last call made on the console
    pre,        \* the console as it was before the last call
    cpu_delay,  \* GBEmu::processor's local cpu_delay (gbemu.rs:107)
    position,   \* where GBEmu::processor stands inside its cycle: <<step, dot>>
    calls,      \* the calls made on the console so far, oldest first
    cycles_run, \* how many cycles of GBEmu::processor have completed
    args,       \* the arguments of the last call made on the console
    gbemu,      \* the fields of GBEmu shared with the UI (gbemu.rs:13-18)
    apu         \* the APU value (apu.rs:8-107)

vars == <<console, ret, last_call, pre, cpu_delay, position, calls, cycles_run, args,
          gbemu, apu>>

----------------------------------------------------------------------------
(* Bit operations on naturals.                                             *)

RECURSIVE BitAnd(_, _)
BitAnd(x, y) ==
    IF x = 0 \/ y = 0 THEN 0
    ELSE (IF x % 2 = 1 /\ y % 2 = 1 THEN 1 ELSE 0) + 2 * BitAnd(x \div 2, y \div 2)

BitOr(x, y) == x + y - BitAnd(x, y)

BitXor(x, y) == x + y - 2 * BitAnd(x, y)

u8(x) == x % 256

u16(x) == x % 65536

\* u16::from_be_bytes([msb, lsb])
from_be_bytes(msb, lsb) == msb * 256 + lsb

\* u16::to_be_bytes(v)[0] and [1]
msb_of(v) == (v \div 256) % 256

lsb_of(v) == v % 256

Byte == 0..255

----------------------------------------------------------------------------
(* Zero-initialised byte arrays.                                           *)

EmptyMem == [i \in {} |-> 0]

Get(mem, i) == IF i \in DOMAIN mem THEN mem[i] ELSE 0

Set(mem, i, v) ==
    IF v = 0 THEN [j \in (DOMAIN mem) \ {i} |-> mem[j]]
    ELSE [j \in (DOMAIN mem) \cup {i} |-> IF j = i THEN v ELSE mem[j]]

----------------------------------------------------------------------------
(* Flags (console.rs:62-65).                                               *)

Z_ZERO_FLAG == 128

N_SUBTRACTION_FLAG == 64

H_HALF_CARRY_FLAG == 32

C_CARRY_FLAG == 16

(* PPU modes (ppu.rs:52-55).                                               *)

PPU_MODE_0_HBLANK == 0

PPU_MODE_1_VBLANK == 1

PPU_MODE_2_OAM_SCAN == 2

PPU_MODE_3_DRAW_PIXELS == 3

----------------------------------------------------------------------------
(* The PPU (ppu.rs).                                                       *)

\* Pixel {color: 0, palette: None, bg_priority: None, tile: None}; an Option
\* is the empty sequence (None) or a sequence of one element (Some).
BlankPixel == [color |-> 0, palette |-> <<>>, bg_priority |-> <<>>, tile |-> <<>>]

PPU_new ==
    [ video_ram |-> EmptyMem,
      video_ram_index |-> 0,
      object_attribute_memory |-> EmptyMem,
      lcdc_7_lcd_enabled |-> TRUE,
      lcdc_6_window_tile_map_area |-> \h9800 - \h8000,
      lcdc_5_window_enabled |-> FALSE,
      lcdc_4_tile_data_area |-> FALSE,
      lcdc_3_bg_tile_map_area |-> \h9800 - \h8000,
      lcdc_2_obj_is_tall |-> FALSE,
      lcdc_1_obj_enable |-> FALSE,
      lcdc_0_bg_window_enable |-> TRUE,
      ppu_mode |-> PPU_MODE_1_VBLANK,
      stat |-> \h85,
      ly |-> 0,
      ly_compare |-> 0,
      scy |-> 0,
      scx |-> 0,
      wy |-> 0,
      wx |-> 0,
      obj_buffer |-> <<>>,
      bg_fifo |-> <<>>,
      obj_fifo |-> <<>>,
      screen |-> [i \in {} |-> BlankPixel],
      dot_counter |-> 0,
      mode_3_penalty |-> 0,
      bg_fetch_state |-> 0,
      obj_fetch_state |-> 7,
      fetched_obj_address |-> 0,
      lx |-> 0,
      w_ly |-> 0,
      w_lx |-> 0,
      ly_eq_wy |-> FALSE,
      is_window_fetching_mode |-> FALSE ]

\* The addresses PPU::read and PPU::write accept without a panic.
PPU_register_known(address) ==
    address \in {\hFF40, \hFF41, \hFF42, \hFF43, \hFF44, \hFF45, \hFF4A, \hFF4B}

PPU_read_panics(address) ==
    ~( (address >= \h8000 /\ address <= \h9FFF)
       \/ (address >= \hFE00 /\ address <= \hFE9F)
       \/ (address >= \hFF00 /\ address <= \hFF7F /\ PPU_register_known(address)) )

PPU_read_lcdc(ppu) ==
      (IF ppu.lcdc_7_lcd_enabled THEN 128 ELSE 0)
    + (IF ppu.lcdc_6_window_tile_map_area = \h9C00 - \h8000 THEN 64 ELSE 0)
    + (IF ppu.lcdc_5_window_enabled THEN 32 ELSE 0)
    + (IF ppu.lcdc_4_tile_data_area THEN 16 ELSE 0)
    + (IF ppu.lcdc_3_bg_tile_map_area = \h9C00 - \h8000 THEN 8 ELSE 0)
    + (IF ppu.lcdc_2_obj_is_tall THEN 4 ELSE 0)
    + (IF ppu.lcdc_1_obj_enable THEN 2 ELSE 0)
    + (IF ppu.lcdc_0_bg_window_enable THEN 1 ELSE 0)

PPU_read(ppu, address) ==
    IF address >= \h8000 /\ address <= \h9FFF THEN Get(ppu.video_ram, address - \h8000)
    ELSE IF address >= \hFE00 /\ address <= \hFE9F
        THEN Get(ppu.object_attribute_memory, address - \hFE00)
    ELSE CASE address = \hFF40 -> PPU_read_lcdc(ppu)
           [] address = \hFF41 -> ppu.stat
           [] address = \hFF42 -> ppu.scy
           [] address = \hFF43 -> ppu.scx
           [] address = \hFF44 -> ppu.ly
           [] address = \hFF45 -> ppu.ly_compare
           [] address = \hFF4A -> ppu.wy
           [] address = \hFF4B -> ppu.wx
           [] OTHER -> 0

PPU_write_panics(address) == PPU_read_panics(address)

PPU_write_lcdc(ppu, value) ==
    LET p == [ppu EXCEPT
                !.lcdc_7_lcd_enabled = BitAnd(value, 128) > 0,
                !.lcdc_6_window_tile_map_area =
                    IF BitAnd(value, 64) > 0 THEN \h9C00 - \h8000 ELSE \h9800 - \h8000,
                !.lcdc_5_window_enabled = BitAnd(value, 32) > 0,
                !.lcdc_4_tile_data_area = BitAnd(value, 16) > 0,
                !.lcdc_3_bg_tile_map_area =
                    IF BitAnd(value, 8) > 0 THEN \h9C00 - \h8000 ELSE \h9800 - \h8000,
                !.lcdc_2_obj_is_tall = BitAnd(value, 4) > 0,
                !.lcdc_1_obj_enable = BitAnd(value, 2) > 0,
                !.lcdc_0_bg_window_enable = BitAnd(value, 1) > 0]
    IN  IF ~p.lcdc_7_lcd_enabled
        THEN [p EXCEPT !.ly = 0, !.dot_counter = 0,
                       !.ppu_mode = PPU_MODE_0_HBLANK,
                       !.stat = BitAnd(@, \hFC)]
        ELSE p

\* PPU::write with the OAM lock lifted during OAM scan.
Mutant_PPU_write(ppu, address, value) ==
    IF address >= \h8000 /\ address <= \h9FFF
    THEN IF ppu.ppu_mode # PPU_MODE_3_DRAW_PIXELS
         THEN [ppu EXCEPT !.video_ram = Set(@, address - \h8000, value)]
         ELSE ppu
    ELSE IF address >= \hFE00 /\ address <= \hFE9F
    THEN IF ppu.ppu_mode # PPU_MODE_3_DRAW_PIXELS
         THEN [ppu EXCEPT !.object_attribute_memory = Set(@, address - \hFE00, value)]
         ELSE ppu
    ELSE CASE address = \hFF40 -> PPU_write_lcdc(ppu, value)
           [] address = \hFF41 -> [ppu EXCEPT !.stat = BitOr(value, \h80)]
           [] address = \hFF42 -> [ppu EXCEPT !.scy = value]
           [] address = \hFF43 -> [ppu EXCEPT !.scx = value]
           [] address = \hFF45 -> [ppu EXCEPT !.ly_compare = value]
           [] address = \hFF4A -> [ppu EXCEPT !.wy = value]
           [] address = \hFF4B -> [ppu EXCEPT !.wx = value]
           [] OTHER -> ppu

PPU_write(ppu, address, value) ==
    IF address >= \h8000 /\ address <= \h9FFF
    THEN IF ppu.ppu_mode # PPU_MODE_3_DRAW_PIXELS
         THEN [ppu EXCEPT !.video_ram = Set(@, address - \h8000, value)]
         ELSE ppu
    ELSE IF address >= \hFE00 /\ address <= \hFE9F
    THEN IF ppu.ppu_mode # PPU_MODE_2_OAM_SCAN /\ ppu.ppu_mode # PPU_MODE_3_DRAW_PIXELS
         THEN [ppu EXCEPT !.object_attribute_memory = Set(@, address - \hFE00, value)]
         ELSE ppu
    ELSE CASE address = \hFF40 -> PPU_write_lcdc(ppu, value)
           [] address = \hFF41 -> [ppu EXCEPT !.stat = BitOr(value, \h80)]
           [] address = \hFF42 -> [ppu EXCEPT !.scy = value]
           [] address = \hFF43 -> [ppu EXCEPT !.scx = value]
           [] address = \hFF44 -> ppu
           [] address = \hFF45 -> [ppu EXCEPT !.ly_compare = value]
           [] address = \hFF4A -> [ppu EXCEPT !.wy = value]
           [] address = \hFF4B -> [ppu EXCEPT !.wx = value]
           [] OTHER -> ppu

PPU_get_mode(ppu) == ppu.ppu_mode

PPU_dma_transfer(ppu, value, address) ==
    [ppu EXCEPT !.object_attribute_memory = Set(@, address, value)]

\* PPU::tile_row_fetch (ppu.rs:390-431): the eight colour indices of one tile
\* row, leftmost first.
tile_row_address(ppu, tile_index, tile_height, y_flip, is_obj) ==
    LET index == IF is_obj /\ ppu.lcdc_2_obj_is_tall THEN BitAnd(tile_index, \hFE)
                 ELSE tile_index
        tile_address ==
            IF ppu.lcdc_4_tile_data_area \/ is_obj THEN index * 16
            ELSE (IF BitAnd(index, \h80) > 0 THEN \h8000 - \h8000 ELSE \h9000 - \h8000)
                 + index * 16
        flip_edge == IF is_obj /\ ppu.lcdc_2_obj_is_tall THEN 30 ELSE 14
        row_offset == IF y_flip THEN u16(flip_edge - tile_height * 2) ELSE u16(tile_height * 2)
    IN  u16(tile_address + row_offset)

tile_row_fetch(ppu, tile_index, tile_height, y_flip, x_flip, is_obj) ==
    LET address == tile_row_address(ppu, tile_index, tile_height, y_flip, is_obj)
        lsb == Get(ppu.video_ram, address)
        msb == Get(ppu.video_ram, address + 1)
        pixel(bit) == (IF BitAnd(lsb, 2 ^ bit) > 0 THEN 1 ELSE 0)
                      + (IF BitAnd(msb, 2 ^ bit) > 0 THEN 2 ELSE 0)
    IN  [i \in 1..8 |-> IF x_flip THEN pixel(i - 1) ELSE pixel(8 - i)]

\* PPU::tile_fetch_bg (ppu.rs:433-444) and PPU::tile_fetch_w (446-457).
tile_fetch_bg(ppu, tile_index) ==
    LET color_row == tile_row_fetch(ppu, tile_index, BitAnd(ppu.ly + ppu.scy, 7),
                                    FALSE, FALSE, FALSE)
    IN  [i \in 1..8 |-> [BlankPixel EXCEPT !.color = color_row[i]]]

tile_fetch_w(ppu, tile_index) ==
    LET color_row == tile_row_fetch(ppu, tile_index, BitAnd(ppu.w_ly, 7), FALSE, FALSE, FALSE)
    IN  [i \in 1..8 |-> [BlankPixel EXCEPT !.color = color_row[i]]]

\* PPU::tile_fetch_obj (ppu.rs:459-479).
obj_tile_height(ppu, oam_index) ==
    u16(ppu.ly - u8(Get(ppu.object_attribute_memory, oam_index) - 16))

tile_fetch_obj(ppu, oam_index) ==
    LET tile_index == Get(ppu.object_attribute_memory, oam_index + 2)
        obj_attributes == Get(ppu.object_attribute_memory, oam_index + 3)
        y_flip == BitAnd(obj_attributes, 64) > 0
        x_flip == BitAnd(obj_attributes, 32) > 0
        color_row == tile_row_fetch(ppu, tile_index, obj_tile_height(ppu, oam_index),
                                    y_flip, x_flip, TRUE)
        bg_priority == BitAnd(obj_attributes, 128) > 0
        palette == BitAnd(obj_attributes, 16) \div 16
        tile == BitAnd(u8(u8(Get(ppu.object_attribute_memory, oam_index + 1) - 8) + ppu.scx),
                       \hF8)
    IN  [i \in 1..8 |-> [color |-> color_row[i], palette |-> <<palette>>,
                         bg_priority |-> <<bg_priority>>, tile |-> <<tile>>]]

\* PPU::update, mode 2 (ppu.rs:215-228): every second dot one OAM entry is
\* tested against the line.
oam_scan(ppu) ==
    IF BitAnd(ppu.dot_counter, 1) = 0 /\ Len(ppu.obj_buffer) < 10
    THEN LET obj_address == ppu.dot_counter * 2
             obj_y == u8(Get(ppu.object_attribute_memory, obj_address) - 16)
             obj_height == IF ppu.lcdc_2_obj_is_tall THEN 16 ELSE 8
         IN  IF ppu.ly >= obj_y /\ ppu.ly < u8(obj_height + obj_y)
             THEN [ppu EXCEPT !.obj_buffer = Append(@, obj_address)]
             ELSE ppu
    ELSE ppu

\* PPU::update, mode 3, the background fetcher (ppu.rs:233-269).
Drop(seq, n) == SubSeq(seq, n + 1, Len(seq))

bg_tile_index(ppu) ==
    Get(ppu.video_ram, ppu.lcdc_3_bg_tile_map_area + (u8(ppu.lx + ppu.scx) \div 8)
                       + BitAnd(ppu.ly + ppu.scy, \hF8) * 4)

w_tile_index(ppu) ==
    Get(ppu.video_ram, ppu.lcdc_6_window_tile_map_area + (ppu.w_lx \div 8)
                       + BitAnd(ppu.w_ly, \hF8) * 4)

bg_fetch(ppu) ==
    IF ppu.bg_fetch_state = 6
    THEN IF ppu.bg_fifo = <<>>
         THEN IF ~ppu.lcdc_0_bg_window_enable
              THEN [ppu EXCEPT !.bg_fifo = [i \in 1..8 |-> BlankPixel], !.bg_fetch_state = 0]
              ELSE IF ppu.is_window_fetching_mode
              THEN [ppu EXCEPT !.bg_fifo = tile_fetch_w(ppu, w_tile_index(ppu)),
                               !.bg_fetch_state = 0]
              ELSE LET row == tile_fetch_bg(ppu, bg_tile_index(ppu))
                       offset == BitAnd(ppu.scx, 7)
                   IN  IF ppu.lx = 0
                       THEN [ppu EXCEPT !.bg_fifo = Drop(row, offset),
                                        !.mode_3_penalty = u8(@ + offset),
                                        !.bg_fetch_state = 0]
                       ELSE [ppu EXCEPT !.bg_fifo = row, !.bg_fetch_state = 0]
         ELSE ppu
    ELSE [ppu EXCEPT !.bg_fetch_state = u8(@ + 1)]

\* PPU::update, mode 3, the object fetcher (ppu.rs:271-306).
obj_matches(ppu) ==
    {index \in 1..Len(ppu.obj_buffer) :
        u8(Get(ppu.object_attribute_memory, ppu.obj_buffer[index] + 1) - 8) = ppu.lx}

Remove(seq, index) == SubSeq(seq, 1, index - 1) \o SubSeq(seq, index + 1, Len(seq))

Min(set) == CHOOSE x \in set : \A y \in set : x <= y

Max(set) == CHOOSE x \in set : \A y \in set : y <= x

obj_merge(fifo, pixel_row) ==
    [i \in 1..(IF Len(fifo) > 8 THEN Len(fifo) ELSE 8) |->
        IF i <= Len(fifo) /\ fifo[i].color # 0 THEN fifo[i] ELSE pixel_row[i]]

obj_fetch(ppu) ==
    IF ppu.obj_fetch_state = 7
    THEN IF obj_matches(ppu) = {} THEN ppu
         ELSE LET index == Min(obj_matches(ppu))
              IN  [ppu EXCEPT !.fetched_obj_address = ppu.obj_buffer[index],
                              !.obj_fetch_state = 0,
                              !.bg_fetch_state = 0,
                              !.mode_3_penalty = u8(@ + 6),
                              !.obj_buffer = Remove(@, index)]
    ELSE IF ppu.obj_fetch_state = 6
    THEN LET pixel_row == tile_fetch_obj(ppu, ppu.fetched_obj_address)
             overlap == ppu.obj_fifo # <<>> /\ pixel_row[1].tile = ppu.obj_fifo[1].tile
             extra == IF overlap /\ Len(ppu.obj_fifo) > 2 THEN Len(ppu.obj_fifo) - 2 ELSE 0
         IN  [ppu EXCEPT !.mode_3_penalty = u8(@ + extra),
                         !.obj_fifo = obj_merge(@, pixel_row),
                         !.obj_fetch_state = 7]
    ELSE [ppu EXCEPT !.obj_fetch_state = u8(@ + 1), !.bg_fetch_state = 0]

\* Pixel mixing without the background-priority rule.
Mutant_mix(ppu, bg_pixel, obj_pixel) ==
    IF obj_pixel = <<>> THEN bg_pixel
    ELSE IF ~ppu.lcdc_1_obj_enable THEN bg_pixel
    ELSE IF obj_pixel[1].color = 0 THEN bg_pixel
    ELSE obj_pixel[1]

\* PPU::update, mode 3, pixel mixing (ppu.rs:308-338).
mix(ppu, bg_pixel, obj_pixel) ==
    IF obj_pixel = <<>> THEN bg_pixel
    ELSE IF ~ppu.lcdc_1_obj_enable THEN bg_pixel
    ELSE IF obj_pixel[1].color = 0 THEN bg_pixel
    ELSE IF obj_pixel[1].bg_priority[1] /\ bg_pixel.color # 0 THEN bg_pixel
    ELSE obj_pixel[1]

SetPixel(screen, at, pixel) ==
    IF pixel = BlankPixel THEN [j \in (DOMAIN screen) \ {at} |-> screen[j]]
    ELSE [j \in (DOMAIN screen) \cup {at} |-> IF j = at THEN pixel ELSE screen[j]]

pixel_mixing(ppu) ==
    IF ppu.mode_3_penalty = 0
    THEN IF ppu.bg_fifo # <<>>
         THEN LET bg_pixel == Head(ppu.bg_fifo)
                  obj_pixel == IF ppu.obj_fifo = <<>> THEN <<>> ELSE <<Head(ppu.obj_fifo)>>
              IN  [ppu EXCEPT !.bg_fifo = Tail(@),
                              !.obj_fifo = IF @ = <<>> THEN <<>> ELSE Tail(@),
                              !.screen = SetPixel(@, <<ppu.ly, ppu.lx>>,
                                                  mix(ppu, bg_pixel, obj_pixel)),
                              !.lx = u8(@ + 1),
                              !.w_lx = IF ppu.is_window_fetching_mode THEN u8(@ + 1) ELSE @]
         ELSE ppu
    ELSE [ppu EXCEPT !.mode_3_penalty = @ - 1]

\* PPU::update, the rendering step of the current mode (ppu.rs:208-341).
render(ppu) ==
    CASE ppu.ppu_mode = PPU_MODE_2_OAM_SCAN -> oam_scan(ppu)
      [] ppu.ppu_mode = PPU_MODE_3_DRAW_PIXELS -> pixel_mixing(obj_fetch(bg_fetch(ppu)))
      [] OTHER -> ppu

\* PPU::update, the dot counter and the mode changes (ppu.rs:344-378).
advance_dot(ppu) ==
    LET dot == u16(ppu.dot_counter + 1)
    IN  IF ppu.ppu_mode = PPU_MODE_2_OAM_SCAN /\ dot = 80
        THEN [ppu EXCEPT !.dot_counter = dot, !.ppu_mode = PPU_MODE_3_DRAW_PIXELS]
        ELSE IF ppu.ppu_mode = PPU_MODE_3_DRAW_PIXELS /\ ppu.lx = 160
        THEN [ppu EXCEPT !.dot_counter = dot,
                         !.ppu_mode = PPU_MODE_0_HBLANK,
                         !.lx = 0,
                         !.w_lx = 0,
                         !.w_ly = IF ppu.is_window_fetching_mode THEN u8(@ + 1) ELSE @,
                         !.is_window_fetching_mode = FALSE,
                         !.obj_buffer = <<>>,
                         !.bg_fifo = <<>>,
                         !.obj_fifo = <<>>]
        ELSE IF dot = 456
        THEN IF ppu.ly >= 153
             THEN [ppu EXCEPT !.dot_counter = 0, !.ly = 0, !.w_ly = 0, !.ly_eq_wy = FALSE,
                              !.ppu_mode = PPU_MODE_2_OAM_SCAN]
             ELSE [ppu EXCEPT !.dot_counter = 0,
                              !.ly = @ + 1,
                              !.ppu_mode = IF ppu.ppu_mode = PPU_MODE_0_HBLANK /\ ppu.ly + 1 < 144
                                           THEN PPU_MODE_2_OAM_SCAN
                                           ELSE PPU_MODE_1_VBLANK]
        ELSE [ppu EXCEPT !.dot_counter = dot]

\* PPU::update, the status register (ppu.rs:380-386).
refresh_stat(ppu) ==
    [ppu EXCEPT !.stat = BitOr(BitOr(BitAnd(@, \hF8), IF ppu.ly = ppu.ly_compare THEN 4 ELSE 0),
                               ppu.ppu_mode)]

\* PPU::update (ppu.rs:207-388).
PPU_update(ppu) ==
    LET rendered == render(ppu)
    IN  IF rendered.lcdc_7_lcd_enabled THEN refresh_stat(advance_dot(rendered)) ELSE rendered

----------------------------------------------------------------------------
(* The cartridge mappers (mappers/no_mbc.rs, mappers/mbc1.rs,              *)
(* mappers/mapper.rs).  A Vec of banks is a sequence; bank index i of the  *)
(* code is element i + 1 of the sequence.                                  *)

NoMBC_new(rom_bank, has_ram) ==
    [ kind |-> "NoMBC", rom_bank |-> rom_bank, has_ram |-> has_ram, ram_bank |-> EmptyMem ]

\* The value read at 0xA000-0xBFFF is computed and dropped (no return), and
\* the ROM array has 0x8000 cells.
NoMBC_read_panics(m, address) == address > \h8000 \/ address >= \h8000

NoMBC_read(m, address) == Get(m.rom_bank, address)

\* ram_bank.unwrap() is a copy of the array: the write changes the copy, and
\* the index is the address itself.
NoMBC_write_panics(m, address) == m.has_ram /\ address >= \h2000

NoMBC_write(m, address, value) == m

\* The bank of 0x2000 bytes that one file.read fills from the save file; a
\* file that ends early leaves the rest of the bank zero.
load_ram_bank(save_file, bank) ==
    [offset \in {at - bank * \h2000 :
                    at \in {a \in DOMAIN save_file : a \div \h2000 = bank}} |->
        save_file[offset + bank * \h2000]]

\* MBC1::new (mbc1.rs:14-70).  The save file is what File::open finds at the
\* path (found = FALSE: NotFound); File::create then truncates it, and the
\* mapper keeps the sender of the channel to write_thread.  The record also
\* holds the other end of that channel: the messages in flight, the file as
\* the worker has written it and the state of the worker.
MBC1_new_from(rom_banks, ram_bank_count, has_battery, found, save_file) ==
    [ kind |-> "MBC1",
      rom_banks |-> rom_banks,
      aux_rom_bank_index |-> 1,
      has_ram |-> ram_bank_count # 0,
      ram_banks |-> [i \in 1..ram_bank_count |->
                        IF has_battery /\ found THEN load_ram_bank(save_file, i - 1)
                        ELSE EmptyMem],
      ram_bank_index |-> 0,
      has_battery |-> has_battery,
      save_sender |-> has_battery /\ ram_bank_count # 0,
      save_channel |-> <<>>,
      save_file |-> EmptyMem,
      save_worker |-> IF has_battery /\ ram_bank_count # 0 THEN "running" ELSE "none",
      ram_enabled |-> TRUE ]

MBC1_new(rom_banks, ram_bank_count, has_battery) ==
    MBC1_new_from(rom_banks, ram_bank_count, has_battery, FALSE, EmptyMem)

MBC1_read_panics(m, address) ==
    IF address <= \h3FFF THEN Len(m.rom_banks) = 0
    ELSE IF address <= \h7FFF THEN m.aux_rom_bank_index >= Len(m.rom_banks)
    ELSE IF address >= \hA000 /\ address <= \hBFFF
        THEN m.ram_enabled /\ m.has_ram /\ m.ram_bank_index >= Len(m.ram_banks)
    ELSE TRUE

MBC1_read(m, address) ==
    IF address <= \h3FFF THEN Get(m.rom_banks[1], address)
    ELSE IF address <= \h7FFF
        THEN Get(m.rom_banks[m.aux_rom_bank_index + 1], address - \h4000)
    ELSE IF m.ram_enabled
        THEN IF m.has_ram
             THEN Get(m.ram_banks[m.ram_bank_index + 1], address - \hA000)
             ELSE \hFF
    ELSE \hFF

\* The file address without the bank.
Mutant_translate_address(gb_address, ram_bank_index) == gb_address - \hA000

translate_address(gb_address, ram_bank_index) ==
    (gb_address - \hA000) + ram_bank_index * \h2000

MBC1_write_panics(m, address) ==
    IF address <= \h1FFF THEN FALSE
    ELSE IF address <= \h3FFF THEN Len(m.rom_banks) = 0
    ELSE IF address <= \h7FFF THEN FALSE
    ELSE IF address >= \hA000 /\ address <= \hBFFF
        THEN /\ m.ram_enabled /\ m.has_ram
             /\ \/ m.ram_bank_index >= Len(m.ram_banks)
                \/ m.save_sender /\ m.save_worker = "failed"
    ELSE TRUE

MBC1_select_rom_bank(m, value) ==
    LET temp_index == BitAnd(value, 31)
        wrapped == IF temp_index > Len(m.rom_banks)
                   THEN temp_index % Len(m.rom_banks) ELSE temp_index
    IN  [m EXCEPT !.aux_rom_bank_index = wrapped]

MBC1_write(m, address, value) ==
    IF address <= \h1FFF THEN [m EXCEPT !.ram_enabled = (BitAnd(value, \hF) = \hA)]
    ELSE IF address <= \h3FFF THEN MBC1_select_rom_bank(m, value)
    ELSE IF address <= \h5FFF THEN [m EXCEPT !.ram_bank_index = BitAnd(value, 3)]
    ELSE IF address <= \h7FFF THEN m
    ELSE IF m.ram_enabled /\ m.has_ram
        THEN [m EXCEPT
                !.ram_banks[m.ram_bank_index + 1] = Set(@, address - \hA000, value),
                !.save_channel = IF m.save_sender
                    THEN Append(@, <<value, translate_address(address, m.ram_bank_index)>>)
                    ELSE @]
    ELSE m

\* write_thread (mapper.rs:26-42): the worker takes the next message and
\* writes its byte at its address of the file; an I/O error makes unwrap()
\* panic, which ends the worker and drops the receiver; once every sender is
\* dropped and the channel is empty, recv() fails and the worker flushes the
\* file and returns.
write_thread_receive(m) ==
    [m EXCEPT !.save_channel = Tail(@),
              !.save_file = Set(@, Head(m.save_channel)[2], Head(m.save_channel)[1])]

write_thread_io_error(m) == [m EXCEPT !.save_worker = "failed"]

write_thread_flush(m) == [m EXCEPT !.save_worker = "flushed"]

\* Dropping the mapper drops its sender, which closes the channel.
MBC1_drop(m) == [m EXCEPT !.save_sender = FALSE]

Mapper_read_panics(m, address) ==
    IF m.kind = "NoMBC" THEN NoMBC_read_panics(m, address)
    ELSE MBC1_read_panics(m, address)

Mapper_read(m, address) ==
    IF m.kind = "NoMBC" THEN NoMBC_read(m, address) ELSE MBC1_read(m, address)

Mapper_write_panics(m, address) ==
    IF m.kind = "NoMBC" THEN NoMBC_write_panics(m, address)
    ELSE MBC1_write_panics(m, address)

Mapper_write(m, address, value) ==
    IF m.kind = "NoMBC" THEN NoMBC_write(m, address, value)
    ELSE MBC1_write(m, address, value)

----------------------------------------------------------------------------
(* The console (console.rs).                                               *)

GBConsole_new(cartridge) ==
    [ a |-> \h01, b |-> \h00, c |-> \h13, d |-> \h00, e |-> \hD8, h |-> \h01, l |-> \h4D,
      flags |-> 128,
      stack_pointer |-> \hFFFE,
      program_counter |-> \h0100,
      cartridge |-> cartridge,
      working_ram |-> EmptyMem,
      aux_working_ram |-> EmptyMem,
      aux_working_ram_index |-> 0,
      high_ram |-> EmptyMem,
      interrupt_master_enable_flag |-> "Disabled",
      interrupt_enable |-> \h00,
      interrupt_flag |-> \hE1,
      serial_byte |-> \h00,
      serial_control |-> \h7E,
      serial_counter |-> 0,
      timer_divider |-> \hAB * 64,
      timer_counter |-> \h00,
      timer_modulo |-> \h00,
      timer_control |-> \hF8,
      timer_overflowed |-> FALSE,
      dmg_bg_pallette |-> \hFC,
      dmg_obj_pallette_0 |-> \h00,
      dmg_obj_pallette_1 |-> \h00,
      dma |-> \hFF,
      dma_counter |-> \hA0 * 4,
      is_halted |-> FALSE,
      ppu |-> PPU_new,
      panicked |-> FALSE ]

Mutant_region(address) ==
    IF address < \h8000 THEN "cartridge_rom"
    ELSE IF address < \hA000 THEN "vram"
    ELSE IF address < \hC000 THEN "cartridge_ram"
    ELSE IF address < \hD000 THEN "working_ram"
    ELSE IF address < \hE000 THEN "aux_working_ram"
    ELSE IF address < \hFEA0 THEN "oam"
    ELSE IF address < \hFF00 THEN "not_usable"
    ELSE IF address < \hFF80 THEN "io_registers"
    ELSE IF address < \hFFFF THEN "high_ram"
    ELSE "interrupt_enable"

\* The range dispatch shared by GBConsole::read (console.rs:123-207) and
\* GBConsole::write (console.rs:220-321): the first range holding the address.
region(address) ==
    IF address < \h8000 THEN "cartridge_rom"
    ELSE IF address < \hA000 THEN "vram"
    ELSE IF address < \hC000 THEN "cartridge_ram"
    ELSE IF address < \hD000 THEN "working_ram"
    ELSE IF address < \hE000 THEN "aux_working_ram"
    ELSE IF address < \hFE00 THEN "echo_ram"
    ELSE IF address < \hFEA0 THEN "oam"
    ELSE IF address < \hFF00 THEN "not_usable"
    ELSE IF address < \hFF80 THEN "io_registers"
    ELSE IF address < \hFFFF THEN "high_ram"
    ELSE "interrupt_enable"

\* The component a bus access of the address is forwarded to.
owner(address) ==
    LET target == IF region(address) = "echo_ram" THEN address - \h2000 ELSE address
        r == region(target)
    IN  CASE r \in {"cartridge_rom", "cartridge_ram"} -> "cartridge"
          [] r \in {"vram", "oam"} -> "ppu"
          [] r = "io_registers" /\ PPU_register_known(target) -> "ppu"
          [] OTHER -> "console"

read_io(C, address) ==
    CASE address = \hFF00 -> 0
      [] address = \hFF01 -> C.serial_byte
      [] address = \hFF02 -> C.serial_control
      [] address = \hFF04 -> lsb_of(C.timer_divider \div 64)
      [] address = \hFF05 -> C.timer_counter
      [] address = \hFF06 -> C.timer_modulo
      [] address = \hFF07 -> C.timer_control
      [] address = \hFF0F -> C.interrupt_flag
      [] address = \hFF46 -> C.dma
      [] address = \hFF47 -> C.dmg_bg_pallette
      [] address = \hFF48 -> C.dmg_obj_pallette_0
      [] address = \hFF49 -> C.dmg_obj_pallette_1
      [] PPU_register_known(address) -> PPU_read(C.ppu, address)
      [] OTHER -> 0

RECURSIVE read_panics(_, _)
read_panics(C, address) ==
    CASE region(address) \in {"cartridge_rom", "cartridge_ram"} ->
            Mapper_read_panics(C.cartridge, address)
      [] region(address) \in {"vram", "oam"} -> PPU_read_panics(address)
      [] region(address) = "echo_ram" -> read_panics(C, address - \h2000)
      [] region(address) = "io_registers" /\ PPU_register_known(address) ->
            PPU_read_panics(address)
      [] OTHER -> FALSE

RECURSIVE read(_, _)
read(C, address) ==
    IF read_panics(C, address) THEN 0
    ELSE CASE region(address) \in {"cartridge_rom", "cartridge_ram"} ->
                Mapper_read(C.cartridge, address)
           [] region(address) \in {"vram", "oam"} -> PPU_read(C.ppu, address)
           [] region(address) = "working_ram" -> Get(C.working_ram, address - \hC000)
           [] region(address) = "aux_working_ram" ->
                Get(C.aux_working_ram, address - \hD000)
           [] region(address) = "echo_ram" -> read(C, address - \h2000)
           [] region(address) = "not_usable" ->
                IF PPU_get_mode(C.ppu) = 2 \/ PPU_get_mode(C.ppu) = 3 THEN \hFF ELSE \h00
           [] region(address) = "io_registers" -> read_io(C, address)
           [] region(address) = "high_ram" -> Get(C.high_ram, address - \hFF80)
           [] OTHER -> C.interrupt_enable

\* The console with the abort of a read of the address recorded.
reading(C, address) ==
    IF read_panics(C, address) THEN [C EXCEPT !.panicked = TRUE] ELSE C

read_16_panics(C, address) ==
    address = \hFFFF \/ read_panics(C, address) \/ read_panics(C, address + 1)

read_16(C, address) ==
    IF read_16_panics(C, address) THEN 0
    ELSE from_be_bytes(read(C, address + 1), read(C, address))

reading_16(C, address) ==
    IF read_16_panics(C, address) THEN [C EXCEPT !.panicked = TRUE] ELSE C

write_io(C, address, value) ==
    CASE address = \hFF00 -> C
      [] address = \hFF01 ->
            IF BitAnd(C.serial_control, \h80) > 0 THEN C
            ELSE [C EXCEPT !.serial_byte = value]
      [] address = \hFF02 ->
            IF BitAnd(C.serial_control, \h80) > 0
            THEN [C EXCEPT !.serial_control = BitOr(value, \h80)]
            ELSE IF BitAnd(value, \h80) > 0
            THEN [C EXCEPT !.serial_counter = 8, !.serial_control = value]
            ELSE [C EXCEPT !.serial_control = value]
      [] address = \hFF04 -> [C EXCEPT !.timer_divider = 0]
      [] address = \hFF05 -> [C EXCEPT !.timer_counter = value]
      [] address = \hFF06 -> [C EXCEPT !.timer_modulo = value]
      [] address = \hFF07 -> [C EXCEPT !.timer_control = value]
      [] address = \hFF0F -> [C EXCEPT !.interrupt_flag = value]
      [] address = \hFF46 ->
            [C EXCEPT !.dma_counter = 0, !.dma = IF value < \hDF THEN value ELSE \hDF]
      [] address = \hFF47 -> [C EXCEPT !.dmg_bg_pallette = value]
      [] address = \hFF48 -> [C EXCEPT !.dmg_obj_pallette_0 = value]
      [] address = \hFF49 -> [C EXCEPT !.dmg_obj_pallette_1 = value]
      [] PPU_register_known(address) -> [C EXCEPT !.ppu = PPU_write(@, address, value)]
      [] OTHER -> C

RECURSIVE write_panics(_, _)
write_panics(C, address) ==
    CASE region(address) \in {"cartridge_rom", "cartridge_ram"} ->
            Mapper_write_panics(C.cartridge, address)
      [] region(address) \in {"vram", "oam"} -> PPU_write_panics(address)
      [] region(address) = "echo_ram" -> write_panics(C, address - \h2000)
      [] region(address) = "io_registers" /\ PPU_register_known(address) ->
            PPU_write_panics(address)
      [] OTHER -> FALSE

RECURSIVE write(_, _, _)
write(C, address, value) ==
    IF C.panicked THEN C
    ELSE IF write_panics(C, address) THEN [C EXCEPT !.panicked = TRUE]
    ELSE CASE region(address) \in {"cartridge_rom", "cartridge_ram"} ->
                [C EXCEPT !.cartridge = Mapper_write(@, address, value)]
           [] region(address) \in {"vram", "oam"} ->
                [C EXCEPT !.ppu = PPU_write(@, address, value)]
           [] region(address) = "working_ram" ->
                [C EXCEPT !.working_ram = Set(@, address - \hC000, value)]
           [] region(address) = "aux_working_ram" ->
                [C EXCEPT !.aux_working_ram = Set(@, address - \hD000, value)]
           [] region(address) = "echo_ram" -> write(C, address - \h2000, value)
           [] region(address) = "not_usable" -> C
           [] region(address) = "io_registers" -> write_io(C, address, value)
           [] region(address) = "high_ram" ->
                [C EXCEPT !.high_ram = Set(@, address - \hFF80, value)]
           [] OTHER -> [C EXCEPT !.interrupt_enable = value]

write_16(C, address, value) ==
    IF C.panicked THEN C
    ELSE IF address = \hFFFF THEN [C EXCEPT !.panicked = TRUE]
    ELSE write(write(C, address, lsb_of(value)), address + 1, msb_of(value))

flag_toggle(C, condition, flag) ==
    IF condition THEN [C EXCEPT !.flags = BitOr(@, flag)]
    ELSE [C EXCEPT !.flags = BitAnd(@, BitXor(\hFF, flag))]

\* GBConsole::handle_interrupt (console.rs:342-378): the new console and the
\* returned cycle count.
Mutant_wake_if_requested(C) ==
    IF C.is_halted /\ BitAnd(BitAnd(C.interrupt_flag, C.interrupt_enable), 31) > 0
    THEN [C EXCEPT !.is_halted = FALSE] ELSE C

wake_if_requested(C) ==
    IF C.is_halted /\ BitAnd(C.interrupt_flag, 31) > 0
    THEN [C EXCEPT !.is_halted = FALSE] ELSE C

\* The for loop of handle_interrupt: the first of the five bits set in both
\* registers, or 0b100000 when there is none.
RECURSIVE bit_to_check_from(_, _, _)
bit_to_check_from(C, bit, rounds) ==
    IF rounds = 0 THEN bit
    ELSE IF BitAnd(C.interrupt_enable, bit) > 0 /\ BitAnd(C.interrupt_flag, bit) > 0
    THEN bit
    ELSE bit_to_check_from(C, bit * 2, rounds - 1)

\* A vector table with the timer and serial entries exchanged.
Mutant_interrupt_vector(bit_to_check) ==
    CASE bit_to_check = 1 -> \h40
      [] bit_to_check = 2 -> \h48
      [] bit_to_check = 4 -> \h58
      [] bit_to_check = 8 -> \h50
      [] bit_to_check = 16 -> \h60
      [] OTHER -> 0

interrupt_vector(bit_to_check) ==
    CASE bit_to_check = 1 -> \h40
      [] bit_to_check = 2 -> \h48
      [] bit_to_check = 4 -> \h50
      [] bit_to_check = 8 -> \h58
      [] bit_to_check = 16 -> \h60
      [] OTHER -> 0

service_interrupt(C, bit_to_check) ==
    LET C1 == [C EXCEPT !.stack_pointer = u16(@ - 2)]
        C2 == write_16(C1, C1.stack_pointer, C.program_counter)
    IN  [C2 EXCEPT !.program_counter = interrupt_vector(bit_to_check),
                   !.interrupt_master_enable_flag = "Disabled",
                   !.interrupt_flag = BitAnd(@, BitXor(\hFF, bit_to_check))]

handle_interrupt(C) ==
    LET C0 == wake_if_requested(C)
        bit_to_check == bit_to_check_from(C0, 1, 5)
    IN  IF C0.interrupt_master_enable_flag = "Enabled" /\ bit_to_check <= 16
        THEN LET C1 == service_interrupt(C0, bit_to_check)
             IN  IF C1.panicked THEN [c |-> [C EXCEPT !.panicked = TRUE], ret |-> 0]
                 ELSE [c |-> C1, ret |-> 20]
        ELSE [c |-> C0, ret |-> 0]

\* GBConsole::update_ppu (console.rs:380-411): one dot.  A running OAM DMA
\* copies one byte every fourth dot, the PPU advances, and IF bits 0-1 are
\* recomputed from the PPU mode and the STAT selection.
dma_step(C) ==
    IF C.dma_counter < \hA0 * 4
    THEN LET lsb == lsb_of(C.dma_counter \div 4)
             source_address == from_be_bytes(C.dma, lsb)
             copied == IF BitAnd(C.dma_counter, 3) = 0
                       THEN [reading(C, source_address) EXCEPT
                                !.ppu = PPU_dma_transfer(@, read(C, source_address), lsb)]
                       ELSE C
         IN  IF copied.panicked THEN [C EXCEPT !.panicked = TRUE]
             ELSE [copied EXCEPT !.dma_counter = u16(@ + 1)]
    ELSE C

stat_requested(stat) ==
    \/ BitAnd(stat, 11) = 8
    \/ BitAnd(stat, 19) = 17
    \/ BitAnd(stat, 35) = 34
    \/ BitAnd(stat, 68) = 68

update_ppu(C) ==
    LET C1 == dma_step(C)
        ppu == PPU_update(C1.ppu)
        stat == PPU_read(ppu, \hFF41)
        interrupt_flag_temp ==
            BitOr(BitOr(BitAnd(C1.interrupt_flag, \hFC),
                        IF PPU_get_mode(ppu) = 1 THEN 1 ELSE 0),
                  IF stat_requested(stat) THEN 2 ELSE 0)
    IN  IF C.panicked THEN [c |-> C, ret |-> 0]
        ELSE IF C1.panicked THEN [c |-> C1, ret |-> 0]
        ELSE [c |-> [C1 EXCEPT !.ppu = ppu, !.interrupt_flag = interrupt_flag_temp],
              ret |-> 0]

\* GBConsole::check_serial (console.rs:413-431); the Option<u8> it returns is
\* the empty sequence or a sequence of one byte.
check_serial(C) ==
    LET transferred_byte == IF C.serial_counter = 8 THEN <<C.serial_byte>> ELSE <<>>
        counter == C.serial_counter - 1
    IN  IF C.panicked THEN [c |-> C, ret |-> <<>>]
        ELSE IF C.serial_counter > 0
        THEN [c |-> [C EXCEPT !.serial_counter = counter,
                              !.serial_byte = u8(@ * 2),
                              !.serial_control = IF counter = 0 THEN BitAnd(@, \h7F) ELSE @,
                              !.interrupt_flag = IF counter = 0 THEN BitOr(@, 8) ELSE @],
              ret |-> transferred_byte]
        ELSE [c |-> C, ret |-> transferred_byte]

\* GBConsole::update_timer (console.rs:433-460).
increment_every(timer_control) ==
    CASE BitAnd(timer_control, 3) = 0 -> \hFF
      [] BitAnd(timer_control, 3) = 1 -> \h04
      [] BitAnd(timer_control, 3) = 2 -> \h0F
      [] OTHER -> \h3F

update_timer(C) ==
    LET C1 == IF C.timer_overflowed
              THEN [C EXCEPT !.timer_counter = C.timer_modulo,
                             !.interrupt_flag = BitOr(@, 4),
                             !.timer_overflowed = FALSE]
              ELSE C
        divider == u16(C1.timer_divider + 1)
        counts == /\ BitAnd(C1.timer_control, 4) > 0
                  /\ BitAnd(divider, increment_every(C1.timer_control)) = 0
        counter == u8(C1.timer_counter + 1)
    IN  IF C.panicked THEN [c |-> C, ret |-> 0]
        ELSE [c |-> [C1 EXCEPT !.timer_divider = divider,
                               !.timer_counter = IF counts THEN counter ELSE @,
                               !.timer_overflowed = IF counts /\ counter = 0 THEN TRUE ELSE @],
              ret |-> 0]

----------------------------------------------------------------------------
(* GBConsole::execute_instruction (console.rs:466-1236).  A handler gives  *)
(* the console after the instruction body, the instruction_size and the    *)
(* cycle_count; execute_instruction then advances the program counter.     *)

R(C, instruction_size, cycle_count) ==
    [c |-> C, size |-> instruction_size, cycles |-> cycle_count]

\* The octal fields of an opcode: opcode & 0o300, (opcode & 0o070) >> 3 and
\* opcode & 0o007.
block(opcode) == opcode \div 64

row(opcode) == (opcode \div 8) % 8

column(opcode) == opcode % 8

HL(C) == from_be_bytes(C.h, C.l)

flag_set(C, flag) == BitAnd(C.flags, flag) > 0

\* The 8-bit register selected by an octal field (6 selects [HL] and is
\* handled by the caller).
r8(C, r) ==
    CASE r = 0 -> C.b [] r = 1 -> C.c [] r = 2 -> C.d [] r = 3 -> C.e
      [] r = 4 -> C.h [] r = 5 -> C.l [] r = 7 -> C.a [] OTHER -> 0

set_r8(C, r, v) ==
    CASE r = 0 -> [C EXCEPT !.b = v]
      [] r = 1 -> [C EXCEPT !.c = v]
      [] r = 2 -> [C EXCEPT !.d = v]
      [] r = 3 -> [C EXCEPT !.e = v]
      [] r = 4 -> [C EXCEPT !.h = v]
      [] r = 5 -> [C EXCEPT !.l = v]
      [] r = 7 -> [C EXCEPT !.a = v]
      [] OTHER -> C

\* The register pair selected by opcode & 0o060 (0: BC, 1: DE, 2: HL).
r16(C, p) ==
    CASE p = 0 -> from_be_bytes(C.b, C.c)
      [] p = 1 -> from_be_bytes(C.d, C.e)
      [] OTHER -> from_be_bytes(C.h, C.l)

set_r16(C, p, v) ==
    CASE p = 0 -> [C EXCEPT !.b = msb_of(v), !.c = lsb_of(v)]
      [] p = 1 -> [C EXCEPT !.d = msb_of(v), !.e = lsb_of(v)]
      [] OTHER -> [C EXCEPT !.h = msb_of(v), !.l = lsb_of(v)]

\* The byte after the opcode and the 16-bit word after it.
n8_address(C) == u16(C.program_counter + 1)

\* The condition selected by opcode & 0o030: NZ, Z, NC, C.
condition(C, cc) ==
    CASE cc = 0 -> ~flag_set(C, Z_ZERO_FLAG)
      [] cc = 1 -> flag_set(C, Z_ZERO_FLAG)
      [] cc = 2 -> ~flag_set(C, C_CARRY_FLAG)
      [] OTHER -> flag_set(C, C_CARRY_FLAG)

\* e8 widened to 16 bits (0x00xx or 0xFFxx).
sign_extend(offset_lsb) ==
    IF BitAnd(offset_lsb, \h80) = 0 THEN from_be_bytes(\h00, offset_lsb)
    ELSE from_be_bytes(\hFF, offset_lsb)

exec_ld_n16_sp(C) ==
    LET C1 == reading_16(C, n8_address(C))
        address == read_16(C, n8_address(C))
    IN  R(write_16(C1, address, C.stack_pointer), 3, 20)

exec_rlca(C) ==
    LET C1 == flag_toggle(C, FALSE, Z_ZERO_FLAG + N_SUBTRACTION_FLAG + H_HALF_CARRY_FLAG)
        C2 == flag_toggle(C1, BitAnd(C.a, \h80) > 0, C_CARRY_FLAG)
        shifted == u8(C.a * 2)
    IN  R([C2 EXCEPT !.a = IF flag_set(C2, C_CARRY_FLAG) THEN u8(shifted + 1) ELSE shifted], 1, 4)

exec_rrca(C) ==
    LET C1 == flag_toggle(C, FALSE, Z_ZERO_FLAG + N_SUBTRACTION_FLAG + H_HALF_CARRY_FLAG)
        C2 == flag_toggle(C1, BitAnd(C.a, \h01) > 0, C_CARRY_FLAG)
        shifted == C.a \div 2
    IN  R([C2 EXCEPT !.a = IF flag_set(C2, C_CARRY_FLAG) THEN u8(shifted + \h80) ELSE shifted], 1, 4)

exec_rla(C) ==
    LET C1 == flag_toggle(C, FALSE, Z_ZERO_FLAG + N_SUBTRACTION_FLAG + H_HALF_CARRY_FLAG)
        will_carry == BitAnd(C.a, \h80) > 0
        shifted == u8(C.a * 2)
        C2 == [C1 EXCEPT !.a = IF flag_set(C1, C_CARRY_FLAG) THEN u8(shifted + 1) ELSE shifted]
    IN  R(flag_toggle(C2, will_carry, C_CARRY_FLAG), 1, 4)

exec_rra(C) ==
    LET C1 == flag_toggle(C, FALSE, Z_ZERO_FLAG + N_SUBTRACTION_FLAG + H_HALF_CARRY_FLAG)
        will_carry == BitAnd(C.a, \h01) > 0
        shifted == C.a \div 2
        C2 == [C1 EXCEPT !.a = IF flag_set(C1, C_CARRY_FLAG) THEN u8(shifted + \h80) ELSE shifted]
    IN  R(flag_toggle(C2, will_carry, C_CARRY_FLAG), 1, 4)

exec_daa(C) ==
    LET C1 == IF flag_set(C, N_SUBTRACTION_FLAG)
              THEN LET a1 == IF flag_set(C, H_HALF_CARRY_FLAG) THEN u8(C.a - \h6) ELSE C.a
                       a2 == IF flag_set(C, C_CARRY_FLAG) THEN u8(a1 - \h60) ELSE a1
                   IN  [C EXCEPT !.a = a2]
              ELSE LET first == flag_set(C, C_CARRY_FLAG) \/ C.a > \h99
                       Ca == IF first
                             THEN flag_toggle([C EXCEPT !.a = u8(@ + \h60)], TRUE, C_CARRY_FLAG)
                             ELSE C
                       second == BitAnd(Ca.flags, H_HALF_CARRY_FLAG) > 1
                                 \/ BitAnd(Ca.a, \hF) > \h9
                   IN  IF second THEN [Ca EXCEPT !.a = u8(@ + \h6)] ELSE Ca
        C2 == flag_toggle(C1, FALSE, H_HALF_CARRY_FLAG)
    IN  R(flag_toggle(C2, C2.a = 0, Z_ZERO_FLAG), 1, 4)

exec_cpl(C) ==
    R(flag_toggle([C EXCEPT !.a = BitXor(@, \hFF)], TRUE,
                  N_SUBTRACTION_FLAG + H_HALF_CARRY_FLAG), 1, 4)

exec_scf(C) ==
    R(flag_toggle(flag_toggle(C, TRUE, C_CARRY_FLAG), FALSE,
                  N_SUBTRACTION_FLAG + H_HALF_CARRY_FLAG), 1, 4)

exec_ccf(C) ==
    R(flag_toggle(flag_toggle(C, BitAnd(C.flags, C_CARRY_FLAG) = 0, C_CARRY_FLAG), FALSE,
                  N_SUBTRACTION_FLAG + H_HALF_CARRY_FLAG), 1, 4)

exec_halt(C) ==
    IF C.interrupt_master_enable_flag = "Enabled" THEN R([C EXCEPT !.is_halted = TRUE], 1, 4)
    ELSE IF BitAnd(C.interrupt_flag, 31) = 0 THEN R([C EXCEPT !.is_halted = TRUE], 1, 4)
    ELSE R(C, 1, 4)

exec_jp(C) ==
    LET C1 == reading_16(C, n8_address(C))
    IN  R([C1 EXCEPT !.program_counter = read_16(C, n8_address(C))], 0, 16)

exec_ret(C) ==
    LET C1 == reading_16(C, C.stack_pointer)
    IN  R([C1 EXCEPT !.program_counter = read_16(C, C.stack_pointer),
                     !.stack_pointer = u16(@ + 2)], 0, 16)

exec_call(C) ==
    LET C1 == [C EXCEPT !.stack_pointer = u16(@ - 2)]
        C2 == write_16(C1, C1.stack_pointer, u16(C.program_counter + 3))
        C3 == reading_16(C2, n8_address(C))
    IN  R([C3 EXCEPT !.program_counter = read_16(C2, n8_address(C))], 0, 6)

exec_reti(C) ==
    LET C1 == reading_16(C, C.stack_pointer)
    IN  R([C1 EXCEPT !.program_counter = read_16(C, C.stack_pointer),
                     !.stack_pointer = u16(@ + 2),
                     !.interrupt_master_enable_flag = "Enabled"], 0, 16)

exec_ldh_a8_a(C) ==
    LET C1 == reading(C, n8_address(C))
        address == from_be_bytes(\hFF, read(C, n8_address(C)))
    IN  R(write(C1, address, C.a), 2, 12)

\* The flags of ADD SP, e8 and LD HL, SP + e8, from the low byte of the sum.
sp_offset_flags(C, carry_check, offset_lsb) ==
    LET C1 == flag_toggle(C, BitAnd(carry_check, \hF0) < BitAnd(offset_lsb, \hFF),
                          H_HALF_CARRY_FLAG)
        C2 == flag_toggle(C1, carry_check < offset_lsb, C_CARRY_FLAG)
    IN  flag_toggle(C2, FALSE, Z_ZERO_FLAG + N_SUBTRACTION_FLAG)

exec_add_sp_e8(C) ==
    LET C1 == reading(C, n8_address(C))
        offset_lsb == read(C, n8_address(C))
        sum == u16(C.stack_pointer + sign_extend(offset_lsb))
        C2 == [C1 EXCEPT !.stack_pointer = sum]
    IN  R(sp_offset_flags(C2, lsb_of(sum), offset_lsb), 2, 16)

exec_jp_hl(C) == R([C EXCEPT !.program_counter = HL(C)], 0, 4)

exec_ldh_a_a8(C) ==
    LET C1 == reading(C, n8_address(C))
        address == from_be_bytes(\hFF, read(C, n8_address(C)))
        C2 == reading(C1, address)
    IN  R([C2 EXCEPT !.a = read(C, address)], 2, 12)

exec_di(C) == R([C EXCEPT !.interrupt_master_enable_flag = "Disabled"], 1, 4)

exec_ld_hl_sp_e8(C) ==
    LET C1 == reading(C, n8_address(C))
        offset_lsb == read(C, n8_address(C))
        new_pointer == u16(C.stack_pointer + sign_extend(offset_lsb))
        C2 == [C1 EXCEPT !.h = msb_of(new_pointer), !.l = lsb_of(new_pointer)]
    IN  R(sp_offset_flags(C2, lsb_of(new_pointer), offset_lsb), 2, 12)

exec_ld_sp_hl(C) == R([C EXCEPT !.stack_pointer = HL(C)], 1, 8)

Mutant_exec_ei(C) == R([C EXCEPT !.interrupt_master_enable_flag = "Enabled"], 1, 4)

exec_ei(C) == R([C EXCEPT !.interrupt_master_enable_flag = "Pending"], 1, 4)

\* panic!() inside the decoder.
exec_panic(C) == R([C EXCEPT !.panicked = TRUE], 1, 4)

\* Block 0, column 0: JR e8 and JR cc, e8 (console.rs:683-708).
exec_jr(C, opcode) ==
    LET jump_condition == IF row(opcode) = 3 THEN TRUE
                          ELSE condition(C, row(opcode) - 4)
        C1 == reading(C, n8_address(C))
        jump_offset_u8 == read(C, n8_address(C))
    IN  IF jump_condition
        THEN R(C1, u16(sign_extend(jump_offset_u8) + 2), 12)
        ELSE R(C, 2, 8)

\* Block 0, column 1: LD r16, n16 and ADD HL, r16 (console.rs:709-757).
exec_ld_r16_n16(C, opcode) ==
    LET C1 == reading_16(C, n8_address(C))
        value == read_16(C, n8_address(C))
        p == row(opcode) \div 2
    IN  R(IF p = 3 THEN [C1 EXCEPT !.stack_pointer = value] ELSE set_r16(C1, p, value), 3, 12)

exec_add_hl_r16(C, opcode) ==
    LET value == HL(C)
        p == row(opcode) \div 2
        hl_now == u16(value + (IF p = 3 THEN C.stack_pointer ELSE r16(C, p)))
        C1 == [C EXCEPT !.h = msb_of(hl_now), !.l = lsb_of(hl_now)]
        C2 == flag_toggle(C1, FALSE, N_SUBTRACTION_FLAG)
        C3 == flag_toggle(C2, BitAnd(value, \h0FFF) > BitAnd(hl_now, \h0FFF), H_HALF_CARRY_FLAG)
    IN  R(flag_toggle(C3, value > hl_now, C_CARRY_FLAG), 1, 8)

\* Block 0, column 2: LD [r16], A and LD A, [r16] with HL+ and HL-
\* (console.rs:758-783).
exec_ld_r16_indirect(C, opcode) ==
    LET p == row(opcode) \div 2
        address == IF p \in {0, 1} THEN r16(C, p) ELSE HL(C)
        C1 == CASE p = 2 -> set_r16(C, 2, u16(address + 1))
                [] p = 3 -> set_r16(C, 2, u16(address - 1))
                [] OTHER -> C
    IN  IF row(opcode) % 2 = 1
        THEN R([reading(C1, address) EXCEPT !.a = read(C1, address)], 1, 8)
        ELSE R(write(C1, address, C1.a), 1, 8)

\* Block 0, column 3: INC r16 and DEC r16 (console.rs:784-806).
exec_inc_dec_r16(C, opcode) ==
    LET incrementor == IF row(opcode) % 2 = 0 THEN 1 ELSE 65535
        p == row(opcode) \div 2
    IN  R(IF p = 3 THEN [C EXCEPT !.stack_pointer = u16(@ + incrementor)]
          ELSE set_r16(C, p, u16(r16(C, p) + incrementor)), 1, 8)

\* Block 0, columns 4 and 5: INC r8 and DEC r8 (console.rs:807-850).
exec_inc_dec_r8(C, opcode) ==
    LET is_hl == row(opcode) = 6
        incrementor == IF column(opcode) = 4 THEN 1 ELSE 255
        address == HL(C)
        register_before == IF is_hl THEN read(C, address) ELSE r8(C, row(opcode))
        register_after == u8(register_before + incrementor)
        C1 == IF is_hl THEN write(reading(C, address), address, register_after)
              ELSE set_r8(C, row(opcode), register_after)
        C2 == flag_toggle(C1, register_after = 0, Z_ZERO_FLAG)
        C3 == flag_toggle(C2, incrementor = 1, N_SUBTRACTION_FLAG)
        half_carry_condition ==
            IF incrementor = 1
            THEN BitAnd(register_before, 15) > 0 /\ BitAnd(register_after, 15) = 0
            ELSE BitAnd(register_before, 15) = 0 /\ BitAnd(register_after, 15) > 0
    IN  R(flag_toggle(C3, half_carry_condition, H_HALF_CARRY_FLAG), 1,
          IF is_hl THEN 12 ELSE 4)

\* Block 0, column 6: LD r8, n8 and LD [HL], n8 (console.rs:851-881).
exec_ld_r8_n8(C, opcode) ==
    LET C1 == reading(C, n8_address(C))
        value == read(C, n8_address(C))
    IN  IF row(opcode) = 6 THEN R(write(C1, HL(C), value), 2, 12)
        ELSE R(set_r8(C1, row(opcode), value), 2, 8)

\* Block 1: LD r8, r8, LD r8, [HL] and LD [HL], r8 (console.rs:886-927).
exec_ld_r8_r8(C, opcode) ==
    LET from_hl == column(opcode) = 6
        C1 == IF from_hl THEN reading(C, HL(C)) ELSE C
        source == IF from_hl THEN read(C, HL(C)) ELSE r8(C, column(opcode))
        is_hl == row(opcode) = 6
    IN  R(IF is_hl THEN write(C1, HL(C), source) ELSE set_r8(C1, row(opcode), source), 1,
          IF from_hl \/ is_hl THEN 8 ELSE 4)

\* The eight accumulator operations of block 2 (console.rs:945-1016); block 3
\* column 6 repeats the same text for the immediate operand (1131-1202).
alu_add(C, operand) ==
    LET temp_a == C.a
        C1 == [C EXCEPT !.a = u8(@ + operand)]
        C2 == flag_toggle(C1, C1.a = 0, Z_ZERO_FLAG)
        C3 == flag_toggle(C2, FALSE, N_SUBTRACTION_FLAG)
        C4 == flag_toggle(C3, BitAnd(temp_a, \h0F) > BitAnd(C1.a, \h0F), H_HALF_CARRY_FLAG)
    IN  flag_toggle(C4, temp_a > C1.a, C_CARRY_FLAG)

alu_adc(C, operand) ==
    LET temp_a == C.a
        sum == u8(C.a + operand)
        C1 == [C EXCEPT !.a = IF flag_set(C, C_CARRY_FLAG) THEN u8(sum + 1) ELSE sum]
        C2 == flag_toggle(C1, C1.a = 0, Z_ZERO_FLAG)
        C3 == flag_toggle(C2, FALSE, N_SUBTRACTION_FLAG)
        C4 == flag_toggle(C3, BitAnd(temp_a, \h0F) > BitAnd(C1.a, \h0F), H_HALF_CARRY_FLAG)
    IN  flag_toggle(C4, temp_a > C1.a, C_CARRY_FLAG)

\* alu_sub with the borrow also reported when nothing was subtracted.
Mutant_alu_sub(C, operand) ==
    LET temp_a == C.a
        C1 == [C EXCEPT !.a = u8(@ - operand)]
        C2 == flag_toggle(C1, C1.a = 0, Z_ZERO_FLAG)
        C3 == flag_toggle(C2, TRUE, N_SUBTRACTION_FLAG)
        C4 == flag_toggle(C3, BitAnd(temp_a, \h0F) < BitAnd(C1.a, \h0F), H_HALF_CARRY_FLAG)
    IN  flag_toggle(C4, temp_a <= C1.a, C_CARRY_FLAG)

alu_sub(C, operand) ==
    LET temp_a == C.a
        C1 == [C EXCEPT !.a = u8(@ - operand)]
        C2 == flag_toggle(C1, C1.a = 0, Z_ZERO_FLAG)
        C3 == flag_toggle(C2, TRUE, N_SUBTRACTION_FLAG)
        C4 == flag_toggle(C3, BitAnd(temp_a, \h0F) < BitAnd(C1.a, \h0F), H_HALF_CARRY_FLAG)
    IN  flag_toggle(C4, temp_a < C1.a, C_CARRY_FLAG)

alu_sbc(C, operand) ==
    LET temp_a == C.a
        difference == u8(C.a - operand)
        C1 == [C EXCEPT !.a = IF flag_set(C, C_CARRY_FLAG) THEN u8(difference - 1)
                              ELSE difference]
        C2 == flag_toggle(C1, C1.a = 0, Z_ZERO_FLAG)
        C3 == flag_toggle(C2, TRUE, N_SUBTRACTION_FLAG)
        C4 == flag_toggle(C3, BitAnd(temp_a, \h0F) < BitAnd(C1.a, \h0F), H_HALF_CARRY_FLAG)
    IN  flag_toggle(C4, temp_a < C1.a, C_CARRY_FLAG)

alu_and(C, operand) ==
    LET C1 == [C EXCEPT !.a = BitAnd(@, operand)]
        C2 == flag_toggle(C1, C1.a = 0, Z_ZERO_FLAG)
        C3 == flag_toggle(C2, TRUE, H_HALF_CARRY_FLAG)
    IN  flag_toggle(C3, FALSE, N_SUBTRACTION_FLAG + C_CARRY_FLAG)

alu_xor(C, operand) ==
    LET C1 == [C EXCEPT !.a = BitXor(@, operand)]
        C2 == flag_toggle(C1, C1.a = 0, Z_ZERO_FLAG)
    IN  flag_toggle(C2, FALSE, N_SUBTRACTION_FLAG + H_HALF_CARRY_FLAG + C_CARRY_FLAG)

alu_or(C, operand) ==
    LET C1 == [C EXCEPT !.a = BitOr(@, operand)]
        C2 == flag_toggle(C1, C1.a = 0, Z_ZERO_FLAG)
    IN  flag_toggle(C2, FALSE, N_SUBTRACTION_FLAG + H_HALF_CARRY_FLAG + C_CARRY_FLAG)

alu_cp(C, operand) ==
    LET comparison == u8(C.a - operand)
        C1 == flag_toggle(C, comparison = 0, Z_ZERO_FLAG)
        C2 == flag_toggle(C1, TRUE, N_SUBTRACTION_FLAG)
        C3 == flag_toggle(C2, BitAnd(C.a, \h0F) < BitAnd(comparison, \h0F), H_HALF_CARRY_FLAG)
    IN  flag_toggle(C3, C.a < comparison, C_CARRY_FLAG)

\* match opcode & 0o070 over the eight operations.
alu_operation(C, operator, operand) ==
    CASE operator = 0 -> alu_add(C, operand)
      [] operator = 1 -> alu_adc(C, operand)
      [] operator = 2 -> alu_sub(C, operand)
      [] operator = 3 -> alu_sbc(C, operand)
      [] operator = 4 -> alu_and(C, operand)
      [] operator = 5 -> alu_xor(C, operand)
      [] operator = 6 -> alu_or(C, operand)
      [] OTHER -> alu_cp(C, operand)

\* Block 2: the operation on a register or [HL] (console.rs:929-1017).
exec_alu_r8(C, opcode) ==
    LET from_hl == column(opcode) = 6
        C1 == IF from_hl THEN reading(C, HL(C)) ELSE C
        operand == IF from_hl THEN read(C, HL(C)) ELSE r8(C, column(opcode))
    IN  R(alu_operation(C1, row(opcode), operand), 1, IF from_hl THEN 8 ELSE 4)

\* Block 3, column 6: the operation on n8 (console.rs:1127-1203); cycle_count
\* is never assigned here.
exec_alu_n8(C, opcode) ==
    LET C1 == reading(C, n8_address(C))
        operand == read(C, n8_address(C))
    IN  R(alu_operation(C1, row(opcode), operand), 2, 4)

\* Block 3, column 0: RET cc (console.rs:1021-1039).
exec_ret_cc(C, opcode) ==
    IF condition(C, row(opcode) % 4)
    THEN LET C1 == reading_16(C, C.stack_pointer)
         IN  R([C1 EXCEPT !.program_counter = read_16(C, C.stack_pointer),
                          !.stack_pointer = u16(@ + 2)], 0, 20)
    ELSE R(C, 1, 8)

\* exec_pop without the final mask of the flags register.
Mutant_exec_pop(C, opcode) ==
    LET C1 == reading_16(C, C.stack_pointer)
        popped_value == read_16(C, C.stack_pointer)
        C2 == [C1 EXCEPT !.stack_pointer = u16(@ + 2)]
        p == row(opcode) \div 2
    IN  R(IF p = 3 THEN [C2 EXCEPT !.a = msb_of(popped_value), !.flags = lsb_of(popped_value)]
          ELSE set_r16(C2, p, popped_value), 1, 12)

\* Block 3, column 1: POP r16 and POP AF (console.rs:1040-1056).
exec_pop(C, opcode) ==
    LET C1 == reading_16(C, C.stack_pointer)
        popped_value == read_16(C, C.stack_pointer)
        C2 == [C1 EXCEPT !.stack_pointer = u16(@ + 2)]
        p == row(opcode) \div 2
        C3 == IF p = 3 THEN [C2 EXCEPT !.a = msb_of(popped_value), !.flags = lsb_of(popped_value)]
              ELSE set_r16(C2, p, popped_value)
    IN  R([C3 EXCEPT !.flags = BitAnd(@, \hF0)], 1, 12)

\* Block 3, column 2, rows 4-7: LDH [C], A, LD [a16], A, LDH A, [C] and
\* LD A, [a16] (console.rs:1057-1075).
exec_ldh_c_a16(C, opcode) ==
    LET is_a16 == row(opcode) % 2 = 1
        C1 == IF is_a16 THEN reading_16(C, n8_address(C)) ELSE C
        address == IF is_a16 THEN read_16(C, n8_address(C)) ELSE from_be_bytes(\hFF, C.c)
        C2 == IF BitAnd(opcode, 16) = 0 THEN write(C1, address, C.a)
              ELSE [reading(C1, address) EXCEPT !.a = read(C, address)]
    IN  R(C2, IF is_a16 THEN 3 ELSE 1, IF is_a16 THEN 16 ELSE 8)

\* Block 3, column 2, rows 0-3: JP cc (console.rs:1076-1093).
exec_jp_cc(C, opcode) ==
    IF condition(C, row(opcode) % 4)
    THEN LET C1 == reading_16(C, n8_address(C))
         IN  R([C1 EXCEPT !.program_counter = read_16(C, n8_address(C))], 0, 16)
    ELSE R(C, 3, 12)

\* exec_call_cc charging the cycle count of the unconditional CALL arm.
Mutant_exec_call_cc(C, opcode) ==
    IF condition(C, row(opcode) % 4)
    THEN LET C1 == [C EXCEPT !.stack_pointer = u16(@ - 2)]
             C2 == write_16(C1, C1.stack_pointer, u16(C.program_counter + 3))
             C3 == reading_16(C2, n8_address(C))
         IN  R([C3 EXCEPT !.program_counter = read_16(C2, n8_address(C))], 0, 6)
    ELSE R(C, 3, 12)

\* Block 3, column 4: CALL cc (console.rs:1094-1113).
exec_call_cc(C, opcode) ==
    IF condition(C, row(opcode) % 4)
    THEN LET C1 == [C EXCEPT !.stack_pointer = u16(@ - 2)]
             C2 == write_16(C1, C1.stack_pointer, u16(C.program_counter + 3))
             C3 == reading_16(C2, n8_address(C))
         IN  R([C3 EXCEPT !.program_counter = read_16(C2, n8_address(C))], 0, 24)
    ELSE R(C, 3, 12)

\* Block 3, column 5: PUSH r16 and PUSH AF (console.rs:1114-1126).
exec_push(C, opcode) ==
    LET p == row(opcode) \div 2
        pushed_value == IF p = 3 THEN from_be_bytes(C.a, C.flags) ELSE r16(C, p)
        C1 == [C EXCEPT !.stack_pointer = u16(@ - 2)]
    IN  R(write_16(C1, C1.stack_pointer, pushed_value), 1, 16)

\* Block 3, column 7: RST vec (console.rs:1204-1224); cycle_count is never
\* assigned here.
exec_rst(C, opcode) ==
    LET jump_address_vector == row(opcode) * 8
        return_address == u16(C.program_counter + 1)
        C1 == [C EXCEPT !.stack_pointer = u16(@ - 2)]
        C2 == write_16(C1, C1.stack_pointer, return_address)
    IN  R([C2 EXCEPT !.program_counter = jump_address_vector], 0, 4)

\* GBConsole::execute_prefixed_instruction (console.rs:1238-1549).
\* The operand of a prefixed instruction and the store back to it.
prefixed_operand(C, r) == IF r = 6 THEN read(C, HL(C)) ELSE r8(C, r)

prefixed_store(C, r, value) ==
    IF r = 6 THEN write(reading(C, HL(C)), HL(C), value) ELSE set_r8(C, r, value)

\* The value written by the rotates and shifts of block 0 (rows 0-7: RLC, RRC,
\* RL, RR, SLA, SRA, SWAP, SRL).
prefixed_shift(operator, value, carry_flag) ==
    CASE operator = 0 -> u8(u8(value * 2) + (IF BitAnd(value, \h80) > 0 THEN 1 ELSE 0))
      [] operator = 1 -> u8(value \div 2 + (IF BitAnd(value, \h01) > 0 THEN \h80 ELSE 0))
      [] operator = 2 -> u8(u8(value * 2) + (IF carry_flag THEN 1 ELSE 0))
      [] operator = 3 -> u8(value \div 2 + (IF carry_flag THEN \h80 ELSE 0))
      [] operator = 4 -> u8(value * 2)
      [] operator = 5 -> BitOr(value \div 2, BitAnd(value, \h80))
      [] operator = 6 -> BitOr(u8(value * 16), value \div 16)
      [] OTHER -> value \div 2

\* carry_condition of the rotates and shifts: the bit shifted out.
prefixed_carry(operator, value) ==
    IF operator \in {0, 2, 4} THEN BitAnd(value, \h80) > 0 ELSE BitAnd(value, \h01) > 0

exec_prefixed_block0(C, opcode) ==
    LET r == column(opcode)
        operator == row(opcode)
        value == prefixed_operand(C, r)
        zero_condition == value = 0
        C1 == prefixed_store(C, r, prefixed_shift(operator, value, flag_set(C, C_CARRY_FLAG)))
    IN  IF operator = 6
        THEN flag_toggle(flag_toggle(C1, FALSE, N_SUBTRACTION_FLAG + H_HALF_CARRY_FLAG
                                                + C_CARRY_FLAG),
                         zero_condition, Z_ZERO_FLAG)
        ELSE flag_toggle(flag_toggle(flag_toggle(C1, zero_condition, Z_ZERO_FLAG), FALSE,
                                     N_SUBTRACTION_FLAG + H_HALF_CARRY_FLAG),
                         prefixed_carry(operator, value), C_CARRY_FLAG)

exec_prefixed_bit(C, opcode) ==
    LET r == column(opcode)
        tested_bit == 2 ^ row(opcode)
        C1 == IF r = 6 THEN reading(C, HL(C)) ELSE C
        C2 == flag_toggle(C1, BitAnd(prefixed_operand(C, r), tested_bit) = 0, Z_ZERO_FLAG)
    IN  flag_toggle(flag_toggle(C2, FALSE, N_SUBTRACTION_FLAG), TRUE, H_HALF_CARRY_FLAG)

exec_prefixed_res(C, opcode) ==
    LET r == column(opcode)
        reset_bit == 2 ^ row(opcode)
    IN  prefixed_store(C, r, BitAnd(prefixed_operand(C, r), BitXor(\hFF, reset_bit)))

exec_prefixed_set(C, opcode) ==
    LET r == column(opcode)
        set_bit == 2 ^ row(opcode)
    IN  prefixed_store(C, r, BitOr(prefixed_operand(C, r), set_bit))

\* The arm of execute_prefixed_instruction (console.rs:1238-1549) the byte
\* behind the prefix ends in.
prefixed_arm(opcode) ==
    IF BitAnd(opcode, 7) \notin 0..7 THEN "out of bounds"
    ELSE CASE BitAnd(opcode, 192) = 0 ->
                IF BitAnd(opcode, 56) \in {0, 8, 16, 24, 32, 40, 48, 56} THEN "shift"
                ELSE "out of bounds"
           [] BitAnd(opcode, 192) = 64 -> "BIT"
           [] BitAnd(opcode, 192) = 128 -> "RES"
           [] BitAnd(opcode, 192) = 192 -> "SET"
           [] OTHER -> "out of bounds"

execute_prefixed_instruction(C) ==
    LET C1 == reading(C, n8_address(C))
        opcode == read(C, n8_address(C))
        is_hl == column(opcode) = 6
        C2 == CASE block(opcode) = 0 -> exec_prefixed_block0(C1, opcode)
                [] block(opcode) = 1 -> exec_prefixed_bit(C1, opcode)
                [] block(opcode) = 2 -> exec_prefixed_res(C1, opcode)
                [] OTHER -> exec_prefixed_set(C1, opcode)
    IN  IF prefixed_arm(opcode) = "out of bounds" THEN exec_panic(C)
        ELSE R(C2, 2, IF ~is_hl THEN 8 ELSE IF block(opcode) = 1 THEN 12 ELSE 16)

\* The opcodes matched by the "Invalid opcodes" arm (console.rs:675).
InvalidOpcodes == {211, 219, 221, 227, 228, 235, 236, 237, 244, 252, 253}

\* The one-off arms without the empty arm of STOP (0o020).
Mutant_OneOffOpcodes ==
    {0, 8, 7, 15, 23, 31, 39, 47, 55, 63, 118, 195, 201, 203, 205, 217, 224, 232, 233,
     240, 243, 248, 249, 251}

\* The opcodes with an arm of their own at the head of match opcode
\* (console.rs:477-672).
OneOffOpcodes ==
    {0, 8, 16, 7, 15, 23, 31, 39, 47, 55, 63, 118, 195, 201, 203, 205, 217, 224, 232, 233,
     240, 243, 248, 249, 251}

\* The arm of match opcode (console.rs:476-1231) an opcode ends in: every
\* inner match is on a masked opcode and lists the values it accepts; any
\* other value takes its "out of bounds" arm.
decoder_arm(opcode) ==
    LET row_bits == BitAnd(opcode, 56)
        pair_bits == BitAnd(opcode, 48)
        condition_bits == BitAnd(opcode, 24)
        Rows == {0, 8, 16, 24, 32, 40, 48, 56}
        Pairs == {0, 16, 32, 48}
        Conditions == {0, 8, 16, 24}
        Columns == 0..7
        within(bits, accepted, arm) == IF bits \in accepted THEN arm ELSE "out of bounds"
    IN  IF opcode \in OneOffOpcodes THEN "one-off"
        ELSE IF opcode \in InvalidOpcodes THEN "invalid opcode"
        ELSE CASE BitAnd(opcode, 192) = 0 ->
                    CASE BitAnd(opcode, 7) = 0 -> within(row_bits, {24, 32, 40, 48, 56}, "JR")
                      [] BitAnd(opcode, 7) = 1 -> within(pair_bits, Pairs, "LD r16, n16 | ADD HL")
                      [] BitAnd(opcode, 7) = 2 -> within(pair_bits, Pairs, "LD [r16], A | LD A, [r16]")
                      [] BitAnd(opcode, 7) = 3 -> within(pair_bits, Pairs, "INC r16 | DEC r16")
                      [] BitAnd(opcode, 7) \in {4, 5} -> within(row_bits, Rows, "INC r8 | DEC r8")
                      [] BitAnd(opcode, 7) = 6 -> within(row_bits, Rows, "LD r8, n8")
                      [] OTHER -> "out of bounds"
               [] BitAnd(opcode, 192) = 64 ->
                    IF BitAnd(opcode, 7) \in Columns /\ row_bits \in Rows THEN "LD r8, r8"
                    ELSE "out of bounds"
               [] BitAnd(opcode, 192) = 128 ->
                    IF BitAnd(opcode, 7) \in Columns /\ row_bits \in Rows THEN "ALU A, r8"
                    ELSE "out of bounds"
               [] BitAnd(opcode, 192) = 192 ->
                    CASE BitAnd(opcode, 7) = 0 -> within(condition_bits, Conditions, "RET cc")
                      [] BitAnd(opcode, 7) = 1 -> within(pair_bits, Pairs, "POP")
                      [] BitAnd(opcode, 7) = 2 /\ row_bits >= 32 -> "LDH [C] | LD [a16]"
                      [] BitAnd(opcode, 7) = 2 -> within(condition_bits, Conditions, "JP cc")
                      [] BitAnd(opcode, 7) = 4 -> within(condition_bits, Conditions, "CALL cc")
                      [] BitAnd(opcode, 7) = 5 -> within(pair_bits, Pairs, "PUSH")
                      [] BitAnd(opcode, 7) = 6 -> within(row_bits, Rows, "ALU A, n8")
                      [] BitAnd(opcode, 7) = 7 -> within(row_bits, Rows, "RST")
                      [] OTHER -> "out of bounds"
               [] OTHER -> "out of bounds"

\* match opcode (console.rs:476-1231): the one-offs first, then the pattern
\* match on block, column and row.
decode(C, opcode) ==
    CASE decoder_arm(opcode) = "out of bounds" -> exec_panic(C)
      [] opcode \in {0, 16} -> R(C, 1, 4)
      [] opcode = 8 -> exec_ld_n16_sp(C)
      [] opcode = 7 -> exec_rlca(C)
      [] opcode = 15 -> exec_rrca(C)
      [] opcode = 23 -> exec_rla(C)
      [] opcode = 31 -> exec_rra(C)
      [] opcode = 39 -> exec_daa(C)
      [] opcode = 47 -> exec_cpl(C)
      [] opcode = 55 -> exec_scf(C)
      [] opcode = 63 -> exec_ccf(C)
      [] opcode = 118 -> exec_halt(C)
      [] opcode = 195 -> exec_jp(C)
      [] opcode = 201 -> exec_ret(C)
      [] opcode = 203 -> execute_prefixed_instruction(C)
      [] opcode = 205 -> exec_call(C)
      [] opcode = 217 -> exec_reti(C)
      [] opcode = 224 -> exec_ldh_a8_a(C)
      [] opcode = 232 -> exec_add_sp_e8(C)
      [] opcode = 233 -> exec_jp_hl(C)
      [] opcode = 240 -> exec_ldh_a_a8(C)
      [] opcode = 243 -> exec_di(C)
      [] opcode = 248 -> exec_ld_hl_sp_e8(C)
      [] opcode = 249 -> exec_ld_sp_hl(C)
      [] opcode = 251 -> exec_ei(C)
      [] opcode \in InvalidOpcodes -> exec_panic(C)
      [] OTHER ->
           CASE block(opcode) = 0 ->
                  CASE column(opcode) = 0 -> exec_jr(C, opcode)
                    [] column(opcode) = 1 ->
                         IF row(opcode) % 2 = 0 THEN exec_ld_r16_n16(C, opcode)
                         ELSE exec_add_hl_r16(C, opcode)
                    [] column(opcode) = 2 -> exec_ld_r16_indirect(C, opcode)
                    [] column(opcode) = 3 -> exec_inc_dec_r16(C, opcode)
                    [] column(opcode) \in {4, 5} -> exec_inc_dec_r8(C, opcode)
                    [] column(opcode) = 6 -> exec_ld_r8_n8(C, opcode)
                    [] OTHER -> exec_panic(C)
             [] block(opcode) = 1 -> exec_ld_r8_r8(C, opcode)
             [] block(opcode) = 2 -> exec_alu_r8(C, opcode)
             [] OTHER ->
                  CASE column(opcode) = 0 -> exec_ret_cc(C, opcode)
                    [] column(opcode) = 1 -> exec_pop(C, opcode)
                    [] column(opcode) = 2 ->
                         IF row(opcode) >= 4 THEN exec_ldh_c_a16(C, opcode)
                         ELSE exec_jp_cc(C, opcode)
                    [] column(opcode) = 4 -> exec_call_cc(C, opcode)
                    [] column(opcode) = 5 -> exec_push(C, opcode)
                    [] column(opcode) = 6 -> exec_alu_n8(C, opcode)
                    [] column(opcode) = 7 -> exec_rst(C, opcode)
                    [] OTHER -> exec_panic(C)

\* The console after one instruction and the returned cycle_count; an abort
\* leaves the console as it was, marked panicked.
execute_instruction(C) ==
    LET opcode == read(C, C.program_counter)
        r == decode(reading(C, C.program_counter), opcode)
    IN  IF r.c.panicked THEN [c |-> [C EXCEPT !.panicked = TRUE], ret |-> 0]
        ELSE [c |-> [r.c EXCEPT !.program_counter = u16(@ + r.size)], ret |-> r.cycles]

----------------------------------------------------------------------------
(* The APU (apu.rs).  The record holds the fields APU::write and           *)
(* APU::update_apu_timer act on; ch_3_volume is kept in quarters (f32      *)
(* 0.0, 0.25, 0.5, 1.0 as 0, 1, 2, 4).                                     *)

\* M_CYCLE_RATE (apu.rs:6)
M_CYCLE_RATE == 1048576

\* (M_CYCLE_RATE / sample_rate).ceil() (apu.rs:182)
sample_ratio(sample_rate) == (M_CYCLE_RATE + sample_rate - 1) \div sample_rate

\* APU::new (apu.rs:109-185) on an output device of the given sample rate.
\* The DAC signals are kept as numerators: dac_3_signal over 15, the others
\* over 1.
APU_new_at(sample_rate) ==
    [ch_1_0_sweep |-> \h80, ch_1_1_length |-> \h3F, ch_1_2_volume |-> \h00,
     ch_1_3_period |-> 0, ch_1_4_length_enable |-> TRUE,
     ch_2_1_length |-> \h3F, ch_2_2_volume |-> \h00,
     ch_2_3_period |-> 0, ch_2_4_length_enable |-> TRUE,
     ch_3_1_length |-> \hFF, ch_3_2_level |-> \h9F,
     ch_3_3_period |-> 0, ch_3_4_length_enable |-> TRUE,
     ch_4_1_length |-> \hFF, ch_4_2_volume |-> \h00, ch_4_3_randomness |-> \h00,
     ch_4_4_length_enable |-> TRUE,
     ch_5_0_volume |-> \h77, ch_5_1_panning |-> \hF3, ch_5_2_enable |-> TRUE,
     wave_ram |-> EmptyMem,
     ch_1_enable |-> FALSE, ch_2_enable |-> FALSE,
     ch_3_enable |-> FALSE, ch_4_enable |-> FALSE,
     dac_1_enable |-> FALSE, dac_2_enable |-> FALSE,
     dac_3_enable |-> FALSE, dac_4_enable |-> FALSE,
     ch_1_envelope_counter |-> 0, ch_1_envelope_increases |-> FALSE,
     ch_1_envelope_pace |-> 0, ch_1_length_counter |-> 0,
     ch_1_period_counter |-> 0, ch_1_volume |-> 0, ch_1_sweep_pace |-> 0,
     ch_1_sweep_period |-> 0, ch_1_sweep_enabled |-> FALSE,
     ch_2_envelope_counter |-> 0, ch_2_envelope_increases |-> FALSE,
     ch_2_envelope_pace |-> 0, ch_2_length_counter |-> 0,
     ch_2_period_counter |-> 0, ch_2_volume |-> 0,
     ch_3_length_counter |-> 0, ch_3_period_counter |-> 0,
     ch_3_sample_index |-> 0, ch_3_volume |-> 0,
     ch_4_envelope_counter |-> 0, ch_4_envelope_pace |-> 0,
     ch_4_envelope_increases |-> FALSE, ch_4_length_counter |-> 0,
     ch_4_lfsr |-> 0, ch_4_period_counter |-> 0, ch_4_volume |-> 0,
     apu_counter |-> 0,
     ch_1_duty_counter |-> 0, ch_2_duty_counter |-> 0,
     dac_1_signal |-> 0, dac_2_signal |-> 0, dac_3_signal |-> 0, dac_4_signal |-> 0,
     gb_sample_rate |-> sample_ratio(sample_rate),
     gb_sample_counter |-> 0,
     panicked |-> FALSE]

\* The APU on a 48 kHz output device.
APU_new == APU_new_at(48000)

\* apu.rs:426-435
disable_ch_1(a) ==
    [a EXCEPT !.ch_1_enable = FALSE, !.ch_1_envelope_counter = 0,
              !.ch_1_length_counter = 0, !.ch_1_period_counter = 0,
              !.ch_1_volume = 0, !.ch_1_sweep_enabled = FALSE,
              !.ch_1_sweep_pace = 0, !.ch_1_sweep_period = 0]

\* apu.rs:437-443
disable_ch_2(a) ==
    [a EXCEPT !.ch_2_enable = FALSE, !.ch_2_envelope_counter = 0,
              !.ch_2_length_counter = 0, !.ch_2_period_counter = 0,
              !.ch_2_volume = 0]

\* apu.rs:445-451
disable_ch_3(a) ==
    [a EXCEPT !.ch_3_enable = FALSE, !.ch_3_length_counter = 0,
              !.ch_3_period_counter = 0, !.ch_3_sample_index = 0,
              !.ch_3_volume = 0]

\* apu.rs:453-459
disable_ch_4(a) ==
    [a EXCEPT !.ch_4_enable = FALSE, !.ch_4_length_counter = 0,
              !.ch_4_envelope_counter = 0, !.ch_4_period_counter = 0,
              !.ch_4_volume = 0]

\* apu.rs:461-465, in u16
get_ch_4_divisor(a) ==
    LET divisor_code == BitAnd(a.ch_4_3_randomness, 7)
        divisor == IF divisor_code = 0 THEN 8 ELSE 16 * divisor_code
    IN  u16(divisor * 2 ^ (a.ch_4_3_randomness \div 16)) \div 4

\* apu.rs:675-691: the APU afterwards and the new period.
calculate_sweep(a) ==
    LET shifted_period == a.ch_1_sweep_period \div (2 ^ BitAnd(a.ch_1_0_sweep, 7))
        new_period == IF BitAnd(a.ch_1_0_sweep, 8) = 0
                        THEN u16(a.ch_1_sweep_period + shifted_period)
                        ELSE u16(a.ch_1_sweep_period - shifted_period)
    IN  [c |-> IF new_period > \h7FF THEN disable_ch_1(a) ELSE a, ret |-> new_period]

\* apu.rs:272-290: the trigger of channel 1.
trigger_ch_1(a) ==
    LET pace == BitAnd(a.ch_1_0_sweep \div 16, 7)
        t == [a EXCEPT !.ch_1_enable = TRUE,
                       !.ch_1_length_counter = IF @ = 64 THEN BitAnd(a.ch_1_1_length, \h3F) ELSE @,
                       !.ch_1_period_counter = \h7FF,
                       !.ch_1_envelope_counter = 0,
                       !.ch_1_volume = a.ch_1_2_volume \div 16,
                       !.ch_1_envelope_increases = BitAnd(a.ch_1_2_volume, 8) # 0,
                       !.ch_1_envelope_pace = BitAnd(a.ch_1_2_volume, 7),
                       !.ch_1_sweep_period = a.ch_1_3_period,
                       !.ch_1_sweep_pace = pace,
                       !.ch_1_sweep_enabled = (pace # 0) \/ (BitAnd(a.ch_1_0_sweep, 7) # 0)]
    IN  IF BitAnd(a.ch_1_0_sweep, 7) # 0 THEN calculate_sweep(t).c ELSE t

\* apu.rs:312-322
trigger_ch_2(a) ==
    [a EXCEPT !.ch_2_enable = TRUE,
              !.ch_2_length_counter = IF @ = 64 THEN BitAnd(a.ch_2_1_length, \h3F) ELSE @,
              !.ch_2_period_counter = \h7FF,
              !.ch_2_envelope_counter = 0,
              !.ch_2_volume = a.ch_2_2_volume \div 16,
              !.ch_2_envelope_increases = BitAnd(a.ch_2_2_volume, 8) # 0,
              !.ch_2_envelope_pace = BitAnd(a.ch_2_2_volume, 7)]

\* apu.rs:345-360
trigger_ch_3(a) ==
    LET level == BitAnd(a.ch_3_2_level \div 32, 3)
    IN  [a EXCEPT !.ch_3_enable = TRUE,
                  !.ch_3_length_counter = IF @ = 0 THEN a.ch_3_1_length ELSE @,
                  !.ch_3_period_counter = a.ch_3_3_period,
                  !.ch_3_volume = CASE level = 0 -> 0
                                    [] level = 1 -> 4
                                    [] level = 2 -> 2
                                    [] OTHER -> 1,
                  !.ch_3_sample_index = 0]

\* apu.rs:378-390
trigger_ch_4(a) ==
    [a EXCEPT !.ch_4_enable = TRUE,
              !.ch_4_length_counter = IF @ = 64 THEN BitAnd(a.ch_4_1_length, \h3F) ELSE @,
              !.ch_4_period_counter = get_ch_4_divisor(a),
              !.ch_4_envelope_counter = 0,
              !.ch_4_volume = a.ch_4_2_volume \div 16,
              !.ch_4_envelope_increases = BitAnd(a.ch_4_2_volume, 8) # 0,
              !.ch_4_envelope_pace = BitAnd(a.ch_4_2_volume, 7),
              !.ch_4_lfsr = \hEFFF]

\* The period register with its three high bits replaced (apu.rs:293, 326, 363).
period_high(period, value) == BitAnd(period, \h00FF) + BitAnd(value, 7) * 256

\* The period register with its low byte replaced (apu.rs:267-268).
period_low(period, value) == BitAnd(period, \hFF00) + value

\* APU::write (apu.rs:253-424)
APU_write(a, address, value) ==
    LET dac == BitAnd(value, \hF8) # 0
        triggered == BitAnd(value, \h80) # 0
        length_enable == BitAnd(value, \h40) # 0
    IN
    IF address >= \hFF10 /\ address <= \hFF26 THEN
        CASE address = \hFF10 -> [a EXCEPT !.ch_1_0_sweep = value]
          [] address = \hFF11 -> [a EXCEPT !.ch_1_1_length = value]
          [] address = \hFF12 ->
                [(IF dac THEN a ELSE disable_ch_1(a))
                    EXCEPT !.dac_1_enable = dac, !.ch_1_2_volume = value]
          [] address = \hFF13 -> [a EXCEPT !.ch_1_3_period = period_low(@, value)]
          [] address = \hFF14 ->
                [(IF triggered THEN trigger_ch_1(a) ELSE a)
                    EXCEPT !.ch_1_4_length_enable = length_enable,
                           !.ch_1_3_period = period_high(@, value)]
          [] address = \hFF16 -> [a EXCEPT !.ch_2_1_length = value]
          [] address = \hFF17 ->
                [(IF dac THEN a ELSE disable_ch_2(a))
                    EXCEPT !.dac_2_enable = dac, !.ch_2_2_volume = value]
          [] address = \hFF18 -> [a EXCEPT !.ch_2_3_period = period_low(@, value)]
          [] address = \hFF19 ->
                [(IF triggered THEN trigger_ch_2(a) ELSE a)
                    EXCEPT !.ch_2_4_length_enable = length_enable,
                           !.ch_2_3_period = period_high(@, value)]
          [] address = \hFF1A ->
                [(IF triggered THEN a ELSE disable_ch_3(a)) EXCEPT !.dac_3_enable = triggered]
          [] address = \hFF1B -> [a EXCEPT !.ch_3_1_length = value]
          [] address = \hFF1C -> [a EXCEPT !.ch_3_2_level = value]
          [] address = \hFF1D -> [a EXCEPT !.ch_3_3_period = period_low(@, value)]
          [] address = \hFF1E ->
                [(IF triggered THEN trigger_ch_3(a) ELSE a)
                    EXCEPT !.ch_3_4_length_enable = length_enable,
                           !.ch_3_3_period = period_high(@, value)]
          [] address = \hFF20 -> [a EXCEPT !.ch_4_1_length = value]
          [] address = \hFF21 ->
                [(IF dac THEN a ELSE disable_ch_4(a))
                    EXCEPT !.dac_4_enable = dac, !.ch_4_2_volume = value]
          [] address = \hFF22 -> [a EXCEPT !.ch_4_3_randomness = value]
          [] address = \hFF23 ->
                [(IF triggered THEN trigger_ch_4(a) ELSE a)
                    EXCEPT !.ch_4_4_length_enable = length_enable]
          [] address = \hFF24 -> [a EXCEPT !.ch_5_0_volume = value]
          [] address = \hFF25 -> [a EXCEPT !.ch_5_1_panning = value]
          [] address = \hFF26 ->
                [(IF triggered THEN a ELSE disable_ch_3(disable_ch_2(disable_ch_1(a))))
                    EXCEPT !.ch_5_2_enable = triggered]
          [] OTHER -> a
    ELSE IF address >= \hFF30 /\ address <= \hFF3F THEN
        IF ~a.ch_3_enable THEN [a EXCEPT !.wave_ram = Set(@, address - \hFF30, value)]
        ELSE a
    ELSE [a EXCEPT !.panicked = TRUE]

\* One envelope step of a channel (apu.rs:563-575): the counter and the volume.
envelope_step(pace, counter, increases, volume) ==
    IF pace = 0 THEN [counter |-> counter, volume |-> volume]
    ELSE IF u8(counter + 1) = pace
        THEN [counter |-> 0,
              volume |-> IF increases /\ volume < \hF THEN volume + 1
                         ELSE IF ~increases /\ volume > 0 THEN volume - 1
                         ELSE volume]
        ELSE [counter |-> u8(counter + 1), volume |-> volume]

\* apu.rs:562-604
update_envelopes(a) ==
    LET e1 == envelope_step(a.ch_1_envelope_pace, a.ch_1_envelope_counter,
                            a.ch_1_envelope_increases, a.ch_1_volume)
        e2 == envelope_step(a.ch_2_envelope_pace, a.ch_2_envelope_counter,
                            a.ch_2_envelope_increases, a.ch_2_volume)
        e4 == envelope_step(a.ch_4_envelope_pace, a.ch_4_envelope_counter,
                            a.ch_4_envelope_increases, a.ch_4_volume)
    IN  [a EXCEPT !.ch_1_envelope_counter = e1.counter, !.ch_1_volume = e1.volume,
                  !.ch_2_envelope_counter = e2.counter, !.ch_2_volume = e2.volume,
                  !.ch_4_envelope_counter = e4.counter, !.ch_4_volume = e4.volume]

\* apu.rs:612-640
update_length_timers(a) ==
    LET a1 == IF a.ch_1_4_length_enable /\ a.ch_1_length_counter < 64
                THEN IF a.ch_1_length_counter + 1 = 64 THEN disable_ch_1(a)
                     ELSE [a EXCEPT !.ch_1_length_counter = @ + 1]
                ELSE a
        a2 == IF a1.ch_2_4_length_enable /\ a1.ch_2_length_counter < 64
                THEN IF a1.ch_2_length_counter + 1 = 64 THEN disable_ch_2(a1)
                     ELSE [a1 EXCEPT !.ch_2_length_counter = @ + 1]
                ELSE a1
        a3 == IF a2.ch_3_4_length_enable /\ a2.ch_3_enable
                THEN IF u8(a2.ch_3_length_counter + 1) = 0 THEN disable_ch_3(a2)
                     ELSE [a2 EXCEPT !.ch_3_length_counter = u8(@ + 1)]
                ELSE a2
    IN  IF a3.ch_4_4_length_enable /\ a3.ch_4_length_counter < 64
            THEN IF a3.ch_4_length_counter + 1 = 64 THEN disable_ch_4(a3)
                 ELSE [a3 EXCEPT !.ch_4_length_counter = @ + 1]
            ELSE a3

\* apu.rs:648-670; the decrement at apu.rs:650 subtracts zero.
update_sweep(a) ==
    IF a.ch_1_sweep_pace = 0 THEN
        LET new_pace == BitAnd(a.ch_1_0_sweep \div 16, 7)
            paced == [a EXCEPT !.ch_1_sweep_pace = IF new_pace # 0 THEN new_pace ELSE 8]
            swept == calculate_sweep(paced)
        IN  IF paced.ch_1_sweep_enabled /\ new_pace # 0
                THEN IF swept.c.ch_1_enable
                        THEN calculate_sweep([swept.c EXCEPT !.ch_1_sweep_period = swept.ret,
                                                             !.ch_1_3_period = swept.ret]).c
                        ELSE swept.c
                ELSE paced
    ELSE a

\* A bit of the DIV-APU counter falls from one to zero (apu.rs:558-560).
falls(before, after, mask) == BitAnd(before, mask) # 0 /\ BitAnd(after, mask) = 0

\* APU::update_apu_timer (apu.rs:552-673)
update_apu_timer(a) ==
    LET before == a.apu_counter
        after == u16(before + 1)
        counted == [a EXCEPT !.apu_counter = after]
        enveloped == IF falls(before, after, 4) THEN update_envelopes(counted) ELSE counted
        timed == IF falls(before, after, 1) THEN update_length_timers(enveloped) ELSE enveloped
    IN  IF falls(before, after, 2) THEN update_sweep(timed) ELSE timed

\* DUTY_VALUES (apu.rs:697-700)
DUTY_VALUES ==
    << <<0, 0, 0, 0, 0, 0, 0, 1>>,
       <<0, 0, 0, 0, 0, 0, 1, 1>>,
       <<0, 0, 0, 0, 1, 1, 1, 1>>,
       <<1, 1, 1, 1, 1, 1, 0, 0>> >>

\* apu.rs:695-722
update_ch_1(a) ==
    IF a.dac_1_enable /\ a.ch_1_enable
    THEN IF a.ch_1_period_counter = \h7FF
         THEN [a EXCEPT !.ch_1_period_counter = a.ch_1_3_period,
                        !.dac_1_signal = DUTY_VALUES[a.ch_1_1_length \div 64 + 1]
                                                    [BitAnd(a.ch_1_duty_counter, 7) + 1],
                        !.ch_1_duty_counter = u8(@ + 1)]
         ELSE [a EXCEPT !.ch_1_period_counter = u16(@ + 1)]
    ELSE a

\* apu.rs:724-751
update_ch_2(a) ==
    IF a.dac_2_enable /\ a.ch_2_enable
    THEN IF a.ch_2_period_counter = \h7FF
         THEN [a EXCEPT !.ch_2_period_counter = a.ch_2_3_period,
                        !.dac_2_signal = DUTY_VALUES[a.ch_2_1_length \div 64 + 1]
                                                    [BitAnd(a.ch_2_duty_counter, 7) + 1],
                        !.ch_2_duty_counter = u8(@ + 1)]
         ELSE [a EXCEPT !.ch_2_period_counter = u16(@ + 1)]
    ELSE a

\* One of the two steps of channel 3 (apu.rs:756-776); digital_to_analog
\* (apu.rs:867-870) is (2 * sample - 15) / 15.
step_ch_3(a) ==
    IF a.ch_3_period_counter = \h7FF
    THEN LET is_odd == BitAnd(a.ch_3_sample_index, 1) # 0
             index == BitAnd(a.ch_3_sample_index, \h1F) \div 2
             sample == IF is_odd THEN Get(a.wave_ram, index) \div 16
                       ELSE BitAnd(Get(a.wave_ram, index), \hF)
         IN  [a EXCEPT !.ch_3_period_counter = a.ch_3_3_period,
                       !.dac_3_signal = 2 * sample - 15,
                       !.ch_3_sample_index = u8(@ + 1)]
    ELSE [a EXCEPT !.ch_3_period_counter = u16(@ + 1)]

\* apu.rs:753-781
update_ch_3(a) == IF a.dac_3_enable /\ a.ch_3_enable THEN step_ch_3(step_ch_3(a)) ELSE a

\* apu.rs:783-806
update_ch_4(a) ==
    IF a.dac_4_enable /\ a.ch_4_enable
    THEN IF a.ch_4_period_counter = 0
         THEN LET feedback == BitXor(BitAnd(a.ch_4_lfsr, 1), BitAnd(a.ch_4_lfsr, 2) \div 2) # 0
                  bits_to_set == IF BitAnd(a.ch_4_3_randomness, 8) # 0 THEN \h8080 ELSE \h8000
                  lfsr == (IF feedback THEN BitOr(a.ch_4_lfsr, bits_to_set) ELSE a.ch_4_lfsr)
                          \div 2
              IN  [a EXCEPT !.ch_4_period_counter = get_ch_4_divisor(a),
                            !.ch_4_lfsr = lfsr,
                            !.dac_4_signal = IF BitAnd(lfsr, 1) # 0 THEN 0 ELSE 1]
         ELSE [a EXCEPT !.ch_4_period_counter = u16(@ - 1)]
    ELSE a

\* The mixed sample of the channels whose panning bits are set, as the
\* numerator of a fraction over 240 (apu.rs:822-845): the square and noise
\* channels weigh signal * volume / 15, channel 3 weighs
\* signal / 15 * volume / 4 * CH_3_REDUCTION.
mixed(a, panning) ==
    (IF BitAnd(panning, 1) # 0 THEN 16 * a.dac_1_signal * BitAnd(a.ch_1_volume, \hF) ELSE 0)
    + (IF BitAnd(panning, 2) # 0 THEN 16 * a.dac_2_signal * BitAnd(a.ch_2_volume, \hF) ELSE 0)
    + (IF BitAnd(panning, 4) # 0 THEN a.dac_3_signal * a.ch_3_volume ELSE 0)
    + (IF BitAnd(panning, 8) # 0 THEN 16 * a.dac_4_signal * BitAnd(a.ch_4_volume, \hF) ELSE 0)

\* The pair sent when the sample counter meets the ratio (apu.rs:809-863), as
\* numerators over 14400: the mix is divided by 4 and scaled by the master
\* volume over 15.
sample_pair(a) ==
    LET left_volume == BitAnd(a.ch_5_0_volume, \h70) \div 8 + 1
        right_volume == u8(BitAnd(a.ch_5_0_volume, 7) * 2) + 1
    IN  << mixed(a, a.ch_5_1_panning \div 16) * BitAnd(left_volume, \hF),
           mixed(a, BitAnd(a.ch_5_1_panning, \hF)) * BitAnd(right_volume, \hF) >>

\* APU::update_apu (apu.rs:693-864): the APU afterwards and the samples sent,
\* oldest first.  The silence of a disabled APU returns before the sample
\* counter is reset.
APU_update_apu(a) ==
    LET generated == IF a.ch_5_2_enable
                     THEN update_ch_4(update_ch_3(update_ch_2(update_ch_1(a))))
                     ELSE a
        counted == [generated EXCEPT !.gb_sample_counter = @ + 1]
    IN  IF counted.gb_sample_counter = counted.gb_sample_rate
        THEN IF ~counted.ch_5_2_enable THEN [c |-> counted, ret |-> <<0, 0>>]
             ELSE [c |-> [counted EXCEPT !.gb_sample_counter = 0], ret |-> sample_pair(counted)]
        ELSE [c |-> counted, ret |-> <<>>]


----------------------------------------------------------------------------
(* Cartridges used to start the console.                                   *)

\* A ROM image that is zero except at the given cells.
ZeroRom == EmptyMem

NoMBCCartridge(rom) == NoMBC_new(rom, FALSE)

\* An MBC1 cartridge of rom_bank_count ROM banks and ram_bank_count RAM banks;
\* bank k holds the byte k at offset 0, the rest of the image is zero.
MarkedBank(k) == Set(EmptyMem, 0, k)

MBC1Cartridge(rom_bank_count, ram_bank_count) ==
    MBC1_new([k \in 1..rom_bank_count |-> MarkedBank(k - 1)], ram_bank_count, FALSE)

\* GBEmu once the ROM at a path was picked and the emulation thread has
\* cleared the request (gbemu.rs:41-49, app.rs:38-42).
GBEmuStarted(path) == [rom_file_path |-> <<path>>, file_changed |-> FALSE]

\* The driver's variables while the console is called directly.
DriverIdle ==
    /\ gbemu = GBEmuStarted("rom.gb")
    /\ apu = APU_new
    /\ cpu_delay = 255
    /\ position = <<"idle", 0>>
    /\ calls = <<>>
    /\ cycles_run = 0

DriverUnchanged == UNCHANGED <<cpu_delay, position, calls, cycles_run>>

\* A call on the console: the console after it, what it returned, and the
\* record of the call.
CallOn(before, name, arguments, result) ==
    /\ ~console.panicked
    /\ gbemu' = gbemu
    /\ apu' = apu
    /\ console' = result.c
    /\ ret' = result.ret
    /\ last_call' = name
    /\ args' = arguments
    /\ pre' = before

Call(name, arguments, result) == CallOn(console, name, arguments, result)

----------------------------------------------------------------------------
(* SpecInterrupt: handle_interrupt called on a console whose interrupt     *)
(* registers, stack pointer, program counter and halt state were set by    *)
(* the program before.                                                     *)

InterruptBits == 0..31

IERegisterValues == InterruptBits \cup {\hE0, \hFF}

IFRegisterValues == InterruptBits \cup {\hE0, \hE1, \hFF}

StackPointers == {\hFFFE, \hD000, \hC002, \hE010, \h0001, \h0000, \hFF11, \hFF10, \h4000}

ProgramCounters == {\h0100, \hC123}

IMEStates == {"Enabled", "Disabled", "Pending"}

InitInterrupt ==
    /\ \E ime \in IMEStates, ie \in IERegisterValues, if \in IFRegisterValues,
          sp \in StackPointers, pc \in ProgramCounters, halted \in BOOLEAN :
            console = [GBConsole_new(NoMBCCartridge(ZeroRom)) EXCEPT
                          !.interrupt_master_enable_flag = ime,
                          !.interrupt_enable = ie,
                          !.interrupt_flag = if,
                          !.stack_pointer = sp,
                          !.program_counter = pc,
                          !.is_halted = halted]
    /\ pre = console
    /\ ret = 0
    /\ last_call = "new"
    /\ args = <<>>
    /\ DriverIdle

CallHandleInterrupt ==
    /\ Call("handle_interrupt", <<>>, handle_interrupt(console))
    /\ DriverUnchanged

NextInterrupt == CallHandleInterrupt

SpecInterrupt == InitInterrupt /\ [][NextInterrupt]_vars

----------------------------------------------------------------------------
(* SpecExec and SpecAlu: execute_instruction called on a console whose     *)
(* registers, flags and memory were set by the program before.  The        *)
(* instruction lies in work RAM at 0xC000 with its operand byte behind it; *)
(* B, E, [HL] and the low byte of the stacked return address hold the same *)
(* operand byte, so every form of an instruction meets it.                 *)

MaxSteps == 2

Opcodes == 0..255

FlagValues == {16 * f : f \in 0..15}

AccumulatorSamples == {\h00, \h0F, \h80, \hFF}

OperandSamples == {\h00, \h01, \h0F, \h80, \hFF}

ExecConsole(opcode, a, operand, flags) ==
    [GBConsole_new(NoMBCCartridge(ZeroRom)) EXCEPT
        !.a = a, !.b = operand, !.c = \h80, !.d = \hC3, !.e = operand,
        !.h = \hC1, !.l = \h00,
        !.flags = flags,
        !.stack_pointer = \hDFFE,
        !.program_counter = \hC000,
        !.working_ram = Set(Set(Set(Set(EmptyMem, \h000, opcode), \h001, operand),
                                \h002, \hC2), \h100, operand),
        !.aux_working_ram = Set(Set(EmptyMem, \hFFE, operand), \hFFF, \hC2)]

InitExecOver(opcodes, as, operands, flagss) ==
    /\ \E opcode \in opcodes, a \in as, operand \in operands, flags \in flagss :
            console = ExecConsole(opcode, a, operand, flags)
    /\ pre = console
    /\ ret = 0
    /\ last_call = "new"
    /\ args = <<>>
    /\ DriverIdle

InitExec == InitExecOver(Opcodes, AccumulatorSamples, OperandSamples, FlagValues)

\* One call of execute_instruction; args keeps the opcode and the byte behind
\* it as they were fetched.
CallExecuteInstruction ==
    /\ Len(calls) < MaxSteps
    /\ Call("execute_instruction",
            <<read(console, console.program_counter), read(console, n8_address(console))>>,
            execute_instruction(console))
    /\ calls' = Append(calls, "execute_instruction")
    /\ UNCHANGED <<cpu_delay, position, cycles_run>>

NextExec == CallExecuteInstruction

SpecExec == InitExec /\ [][NextExec]_vars

\* SpecDecode: every opcode with every byte behind it, on registers that
\* keep the operands of the instruction in ROM, work RAM and high RAM.
DecodeConsole(opcode, following) ==
    [ExecConsole(opcode, \h80, \h01, C_CARRY_FLAG) EXCEPT
        !.working_ram = Set(@, \h001, following)]

InitDecode ==
    /\ \E opcode \in Opcodes, following \in Byte :
            console = DecodeConsole(opcode, following)
    /\ pre = console
    /\ ret = 0
    /\ last_call = "new"
    /\ args = <<>>
    /\ DriverIdle

SpecDecode == InitDecode /\ [][NextExec]_vars

\* Opcodes of the accumulator operations on B, on [HL] and on n8.
AluOpcodes ==
    {128 + 8 * operator : operator \in 0..7} \cup
    {128 + 8 * operator + 6 : operator \in 0..7} \cup
    {192 + 8 * operator + 6 : operator \in 0..7}

AluOperands == {\h00, \h01, \h07, \h08, \h0F, \h10, \h55, \h7F, \h80, \hF0, \hFE, \hFF}

\* Carry set with the other flags clear, and carry clear with the others set.
CarryFlagValues == {C_CARRY_FLAG, Z_ZERO_FLAG + N_SUBTRACTION_FLAG + H_HALF_CARRY_FLAG}

InitAlu == InitExecOver(AluOpcodes, Byte, AluOperands, CarryFlagValues)

SpecAlu == InitAlu /\ [][NextExec]_vars

----------------------------------------------------------------------------
(* SpecBus: bus reads and writes on the power-on console, for the          *)
(* no-mapper cartridge and for bank-switching cartridges.                  *)

MaxBusCalls == 2

\* The first and last address of the bus ranges, the mapper's control
\* addresses and the registers with a handler of their own.
BusAddresses ==
    {\h0000, \h2000, \h4000, \h7FFF, \h8000, \hA000, \hBFFF, \hC000, \hD000, \hDDFF,
     \hE000, \hF000, \hFDFF, \hFE00, \hFEA0, \hFF00, \hFF0F, \hFF40, \hFF46, \hFF80,
     \hFFFF}

BusValues == {\h00, \h02}

BusCartridges == {NoMBCCartridge(ZeroRom), MBC1Cartridge(2, 0), MBC1Cartridge(2, 1)}

InitBus ==
    /\ \E cartridge \in BusCartridges : console = GBConsole_new(cartridge)
    /\ pre = console
    /\ ret = 0
    /\ last_call = "new"
    /\ args = <<>>
    /\ DriverIdle

BusRead ==
    /\ Len(calls) < MaxBusCalls
    /\ \E address \in BusAddresses :
            Call("read", <<address>>,
                 [c |-> reading(console, address), ret |-> read(console, address)])
    /\ calls' = Append(calls, "read")
    /\ UNCHANGED <<cpu_delay, position, cycles_run>>

BusWrite ==
    /\ Len(calls) < MaxBusCalls
    /\ \E address \in BusAddresses, value \in BusValues :
            Call("write", <<address, value>>,
                 [c |-> write(console, address, value), ret |-> 0])
    /\ calls' = Append(calls, "write")
    /\ UNCHANGED <<cpu_delay, position, cycles_run>>

NextBus == BusRead \/ BusWrite

SpecBus == InitBus /\ [][NextBus]_vars

----------------------------------------------------------------------------
(* SpecPowerOn: the console as constructed, with a ROM whose entry point   *)
(* holds a short program, stepped by execute_instruction and               *)
(* handle_interrupt.                                                       *)

\* XOR A, HALT, NOP, EI, DI, INC A
ProgramBytes == {\hAF, \h76, \h00, \hFB, \hF3, \h3C}

ProgramRom(first, second, third) ==
    Set(Set(Set(ZeroRom, \h0100, first), \h0101, second), \h0102, third)

InitPowerOn ==
    /\ \E first \in ProgramBytes, second \in ProgramBytes, third \in ProgramBytes :
            console = GBConsole_new(NoMBCCartridge(ProgramRom(first, second, third)))
    /\ pre = console
    /\ ret = 0
    /\ last_call = "new"
    /\ args = <<>>
    /\ DriverIdle

CallHandleInterruptBetween ==
    /\ Len(calls) < MaxSteps
    /\ Call("handle_interrupt", <<>>, handle_interrupt(console))
    /\ calls' = Append(calls, "handle_interrupt")
    /\ UNCHANGED <<cpu_delay, position, cycles_run>>

NextPowerOn == CallExecuteInstruction \/ CallHandleInterruptBetween

SpecPowerOn == InitPowerOn /\ [][NextPowerOn]_vars

----------------------------------------------------------------------------
(* Spec: the cycle loop of GBEmu::processor (gbemu.rs:107-151) on a        *)
(* no-mapper cartridge whose program starts at 0x0100.  The program ran    *)
(* from power-on, or had set IE, IME, the timer and the LCD before.  Every *)
(* call the loop makes is one step; calls records <<cycle, name, detail>>. *)

MaxCycles == 7

MaxInstructionDelay == 2

\* GBConsole::get_instruction_delay, called at gbemu.rs:115, is not part of
\* the source tree: the number of cycles before the instruction at the
\* program counter executes is any positive count.
get_instruction_delay(C) == 1..MaxInstructionDelay

\* GBConsole::update_apu, called at gbemu.rs:145: the sound channels
\* (apu.rs:693) are not console state of this model.
update_apu(C) == [c |-> C, ret |-> 0]

DriverPrograms == {\hFB, \hF3, \h76, \h00}

DriverIERegisterValues == {\h00, \h05}

DriverTimerControls == {\hF8, \hFD}

DriverLcdControls == {\h91, \h11}

InitDriverConsole(first, second, ime, ie, tac, lcdc) ==
    LET C0 == GBConsole_new(NoMBCCartridge(ProgramRom(first, second, \h00)))
        C1 == write(write(write(C0, \hFFFF, ie), \hFF05, \hFF), \hFF07, tac)
        C2 == IF lcdc = \h91 THEN C1 ELSE write(C1, \hFF40, lcdc)
    IN  [C2 EXCEPT !.interrupt_master_enable_flag = ime]

Init ==
    /\ \E first \in DriverPrograms, second \in DriverPrograms,
          ime \in {"Disabled", "Enabled"}, ie \in DriverIERegisterValues,
          tac \in DriverTimerControls, lcdc \in DriverLcdControls :
            console = InitDriverConsole(first, second, ime, ie, tac, lcdc)
    /\ pre = console
    /\ ret = 0
    /\ last_call = "new"
    /\ args = <<>>
    /\ gbemu = GBEmuStarted("rom.gb")
    /\ apu = APU_new
    /\ cpu_delay = 255
    /\ position = <<"interrupt", 0>>
    /\ calls = <<>>
    /\ cycles_run = 0

Mutant_next_position(p) ==
    CASE p[1] = "interrupt" -> <<"cpu", 0>>
      [] p[1] = "cpu" -> <<"ppu", 0>>
      [] p[1] = "ppu" -> IF p[2] < 3 THEN <<"ppu", p[2] + 1>> ELSE <<"apu", 0>>
      [] p[1] = "apu" -> <<"timer", 0>>
      [] p[1] = "timer" -> <<"serial", 0>>
      [] p[1] = "serial" -> <<"interrupt", 0>>

\* The order of the statements of one cycle (gbemu.rs:112-145).
next_position(p) ==
    CASE p[1] = "interrupt" -> <<"cpu", 0>>
      [] p[1] = "cpu" -> <<"timer", 0>>
      [] p[1] = "timer" -> <<"ppu", 0>>
      [] p[1] = "ppu" -> <<"serial", p[2]>>
      [] p[1] = "serial" -> IF p[2] < 3 THEN <<"ppu", p[2] + 1>> ELSE <<"apu", 0>>
      [] p[1] = "apu" -> <<"interrupt", 0>>

At(step) ==
    /\ position[1] = step
    /\ cycles_run < MaxCycles
    /\ ~console.panicked
    /\ position' = next_position(position)

Logged(name, detail) == calls' = Append(calls, <<cycles_run, name, detail>>)

\* A step of the loop that calls nothing on the console.
NoCall ==
    /\ console' = console
    /\ gbemu' = gbemu
    /\ apu' = apu
    /\ pre' = console
    /\ last_call' = "none"
    /\ ret' = 0
    /\ args' = <<>>
    /\ calls' = calls

\* The check of gbemu.rs:112-118 without the test of is_halted: the delay of
\* the next instruction is added for a halted CPU too.
Mutant_CheckInterrupt ==
    /\ At("interrupt")
    /\ IF cpu_delay = 255
       THEN LET r == handle_interrupt(console)
            IN  /\ Call("handle_interrupt", <<>>, r)
                /\ IF r.c.panicked
                   THEN /\ Logged("handle_interrupt", r.ret)
                        /\ cpu_delay' = cpu_delay
                   ELSE \E delay \in get_instruction_delay(r.c) :
                            /\ calls' = calls \o <<<<cycles_run, "handle_interrupt", r.ret>>,
                                                   <<cycles_run, "get_instruction_delay", delay>>>>
                            /\ cpu_delay' = u8(u8(r.ret + delay) - 1)
       ELSE /\ NoCall
            /\ cpu_delay' = u8(cpu_delay - 1)
    /\ UNCHANGED cycles_run

\* gbemu.rs:112-118: when the previous instruction is over, check the
\* interrupts and fetch the delay of the next instruction; count one cycle.
CheckInterrupt ==
    /\ At("interrupt")
    /\ IF cpu_delay = 255
       THEN LET r == handle_interrupt(console)
            IN  /\ Call("handle_interrupt", <<>>, r)
                /\ IF r.c.panicked
                   THEN /\ Logged("handle_interrupt", r.ret)
                        /\ cpu_delay' = cpu_delay
                   ELSE IF r.c.is_halted
                   THEN /\ Logged("handle_interrupt", r.ret)
                        /\ cpu_delay' = u8(r.ret - 1)
                   ELSE \E delay \in get_instruction_delay(r.c) :
                            /\ calls' = calls \o <<<<cycles_run, "handle_interrupt", r.ret>>,
                                                   <<cycles_run, "get_instruction_delay", delay>>>>
                            /\ cpu_delay' = u8(u8(r.ret + delay) - 1)
       ELSE /\ NoCall
            /\ cpu_delay' = u8(cpu_delay - 1)
    /\ UNCHANGED cycles_run

\* gbemu.rs:120-126: when the delay has run out, promote a pending IME and
\* execute the instruction.
promote(C) ==
    IF C.interrupt_master_enable_flag = "Pending"
    THEN [C EXCEPT !.interrupt_master_enable_flag = "Enabled"]
    ELSE C

opcode_at_pc == read(console, console.program_counter)

CpuStep ==
    /\ At("cpu")
    /\ IF cpu_delay = 0
       THEN /\ CallOn(promote(console), "execute_instruction", <<opcode_at_pc>>,
                      execute_instruction(promote(console)))
            /\ Logged("execute_instruction", opcode_at_pc)
            /\ cpu_delay' = u8(cpu_delay - 1)
       ELSE /\ NoCall
            /\ cpu_delay' = cpu_delay
    /\ UNCHANGED cycles_run

\* gbemu.rs:128
TimerStep ==
    /\ At("timer")
    /\ Call("update_timer", <<>>, update_timer(console))
    /\ Logged("update_timer", 0)
    /\ UNCHANGED <<cpu_delay, cycles_run>>

\* gbemu.rs:130-143: four dots, each a PPU update and a serial check.
PpuStep ==
    /\ At("ppu")
    /\ Call("update_ppu", <<>>, update_ppu(console))
    /\ Logged("update_ppu", position[2])
    /\ UNCHANGED <<cpu_delay, cycles_run>>

SerialStep ==
    /\ At("serial")
    /\ Call("check_serial", <<>>, check_serial(console))
    /\ Logged("check_serial", position[2])
    /\ UNCHANGED <<cpu_delay, cycles_run>>

\* gbemu.rs:145-149: the APU update ends the cycle.
ApuStep ==
    /\ At("apu")
    /\ Call("update_apu", <<>>, update_apu(console))
    /\ Logged("update_apu", 0)
    /\ cycles_run' = cycles_run + 1
    /\ UNCHANGED cpu_delay

Next ==
    \/ CheckInterrupt
    \/ CpuStep
    \/ TimerStep
    \/ PpuStep
    \/ SerialStep
    \/ ApuStep

Spec == Init /\ [][Next]_vars

----------------------------------------------------------------------------
(* SpecVBlank: the cycle loop of Spec on the power-on console, whose PPU   *)
(* is in V-blank for its first pass over the lines, with the V-blank       *)
(* interrupt enabled and a handler at 0x0040 that returns at once.         *)

\* RETI at the V-blank vector, NOP everywhere else.
VBlankHandlerRom == Set(ZeroRom, \h0040, \hD9)

InitVBlank ==
    /\ console = [write(GBConsole_new(NoMBCCartridge(VBlankHandlerRom)), \hFFFF, \h01)
                     EXCEPT !.interrupt_master_enable_flag = "Enabled"]
    /\ pre = console
    /\ ret = 0
    /\ last_call = "new"
    /\ args = <<>>
    /\ gbemu = GBEmuStarted("rom.gb")
    /\ apu = APU_new
    /\ cpu_delay = 255
    /\ position = <<"interrupt", 0>>
    /\ calls = <<>>
    /\ cycles_run = 0

SpecVBlank == InitVBlank /\ [][Next]_vars

----------------------------------------------------------------------------
(* SpecTimer: update_timer called repeatedly on a console whose timer      *)
(* registers and divider were set by the program and by earlier cycles.    *)

MaxTimerCalls == 4

TimerControls == {\hF8, \hFC, \hFD, \hFE, \hFF}

TimerCounters == {\h00, \hFE, \hFF}

TimerModulos == {\h00, \h80, \hFF}

TimerDividers == {\h0000, \h0002, \h0007, \h000E, \h003E, \h00FE, \hFFFE, \hFFFF}

InitTimer ==
    /\ \E tac \in TimerControls, tima \in TimerCounters, tma \in TimerModulos,
          divider \in TimerDividers, if \in {\hE0, \hE4} :
            console = [GBConsole_new(NoMBCCartridge(ZeroRom)) EXCEPT
                          !.timer_control = tac,
                          !.timer_counter = tima,
                          !.timer_modulo = tma,
                          !.timer_divider = divider,
                          !.interrupt_flag = if]
    /\ pre = console
    /\ ret = 0
    /\ last_call = "new"
    /\ args = <<>>
    /\ DriverIdle

CallUpdateTimer ==
    /\ Len(calls) < MaxTimerCalls
    /\ Call("update_timer", <<>>, update_timer(console))
    /\ calls' = Append(calls, "update_timer")
    /\ UNCHANGED <<cpu_delay, position, cycles_run>>

NextTimer == CallUpdateTimer

SpecTimer == InitTimer /\ [][NextTimer]_vars

----------------------------------------------------------------------------
(* SpecDma: OAM DMA transfers started by writes of a source page to 0xFF46 *)
(* and advanced by update_ppu, on the power-on console with marked bytes   *)
(* in ROM, work RAM and OAM.  cycles_run counts the calls of update_ppu    *)
(* since the last write of 0xFF46 (since construction before the first),   *)
(* and calls logs each write of 0xFF46 with its page and the OAM it found. *)

MaxDmaTicks == 644

MaxDmaWrites == 2

DmaPages == {\h00, \hA0, \hC0, \hDF}

\* The calls of update_ppu after which the program writes 0xFF46.
DmaWriteTicks == {0, 2, 640}

\* The calls of update_ppu after which the program writes to the source page.
DmaSourceWriteTicks == {1, 6}

DmaMarks == (0 :> \h31) @@ (1 :> \h32) @@ (2 :> \h33) @@ (\h9F :> \h34)

DmaOam == (0 :> \h61) @@ (1 :> \h62) @@ (2 :> \h63) @@ (\h9F :> \h64)

DmaConsole ==
    [GBConsole_new(NoMBCCartridge(DmaMarks)) EXCEPT
        !.working_ram = DmaMarks,
        !.aux_working_ram = (\hF00 :> \h51) @@ (\hF01 :> \h52) @@ (\hF9F :> \h54),
        !.ppu.object_attribute_memory = DmaOam]

InitDma ==
    /\ console = DmaConsole
    /\ pre = console
    /\ ret = 0
    /\ last_call = "new"
    /\ args = <<>>
    /\ DriverIdle

DmaWrite ==
    /\ Len(calls) < MaxDmaWrites
    /\ cycles_run \in DmaWriteTicks
    /\ \E page \in DmaPages :
            /\ Call("write", <<\hFF46, page>>,
                    [c |-> write(console, \hFF46, page), ret |-> 0])
            /\ calls' = Append(calls, <<"write", page,
                                        console.ppu.object_attribute_memory>>)
    /\ cycles_run' = 0
    /\ UNCHANGED <<cpu_delay, position>>

DmaSourceWrite ==
    /\ calls # <<>>
    /\ cycles_run \in DmaSourceWriteTicks
    /\ console.dma \in {\hC0, \hDF}
    /\ \E offset \in {1, 2} :
            LET address == from_be_bytes(console.dma, offset)
            IN  /\ read(console, address) # \h7E
                /\ Call("write", <<address, \h7E>>,
                        [c |-> write(console, address, \h7E), ret |-> 0])
    /\ DriverUnchanged

DmaTick ==
    /\ cycles_run < MaxDmaTicks
    /\ Call("update_ppu", <<>>, update_ppu(console))
    /\ cycles_run' = cycles_run + 1
    /\ UNCHANGED <<cpu_delay, position, calls>>

NextDma == DmaWrite \/ DmaSourceWrite \/ DmaTick

SpecDma == InitDma /\ [][NextDma]_vars

----------------------------------------------------------------------------
(* SpecPpu: the power-on console advanced by update_ppu, with bus writes   *)
(* of the program to the PPU's registers, video RAM and OAM in between.    *)
(* cycles_run counts the calls of update_ppu; calls logs, with the count   *)
(* at which each happened, the updates that signalled a completed frame    *)
(* ("frame"), the updates that wrapped LY from 153 to 0 ("pass") and the   *)
(* writes of the program ("write").                                        *)

\* Two passes of 154 scanlines of 456 dots, and the first line of a third.
MaxPpuTicks == 140904

\* How many updates a run is followed for after its last write.
MaxPpuTicksAfterWrite == 1400

MaxPpuWrites == 2

Mutant_PPU_has_entered_vblank(ppu) == ppu.ly = 144

\* PPU::has_entered_vblank (ppu.rs:485-487).
PPU_has_entered_vblank(ppu) == ppu.ly = 144 /\ ppu.dot_counter = 0

\* GBEmu::processor draws a new frame when update_ppu returns true
\* (gbemu.rs:131-132).
frame_completed(C) == PPU_has_entered_vblank(C.ppu)

\* The update counts at which the program makes its first write: in V-blank
\* after power-on, and in OAM scan, pixel transfer and H-blank of line 0 of
\* the second pass.
PpuWriteTicks == {1, 70264, 70324, 70524}

\* LCDC off and on, STAT, SCX, LYC, a byte of tile data and the Y of the
\* first object.
PpuWrites ==
    {<<\hFF40, \h11>>, <<\hFF40, \h91>>, <<\hFF41, \h03>>, <<\hFF41, \h78>>,
     <<\hFF43, \h05>>, <<\hFF45, \h01>>, <<\h8000, \hAA>>, <<\hFE00, \h10>>}

PpuWriteCount == Cardinality({i \in 1..Len(calls) : calls[i][1] = "write"})

LastPpuWrite == Max({0} \cup {calls[i][2] : i \in {j \in 1..Len(calls) : calls[j][1] = "write"}})

InitPpu ==
    /\ console = GBConsole_new(NoMBCCartridge(ZeroRom))
    /\ pre = console
    /\ ret = 0
    /\ last_call = "new"
    /\ args = <<>>
    /\ DriverIdle

\* The events of the update that has just made the console from before.
PpuEvents(before, after, count) ==
    (IF frame_completed(after) THEN <<<<"frame", count>>>> ELSE <<>>)
    \o (IF before.ppu.ly = 153 /\ after.ppu.ly = 0 THEN <<<<"pass", count>>>> ELSE <<>>)

PpuTick ==
    /\ cycles_run < MaxPpuTicks
    /\ PpuWriteCount > 0 => cycles_run - LastPpuWrite < MaxPpuTicksAfterWrite
    /\ Call("update_ppu", <<>>, update_ppu(console))
    /\ cycles_run' = cycles_run + 1
    /\ calls' = calls \o PpuEvents(console, console', cycles_run')
    /\ UNCHANGED <<cpu_delay, position>>

\* The first write comes at one of PpuWriteTicks; a second one follows a
\* write that switched the display off, one update later.
PpuWrite ==
    /\ \/ PpuWriteCount = 0 /\ cycles_run \in PpuWriteTicks
       \/ /\ PpuWriteCount \in 1..(MaxPpuWrites - 1)
          /\ ~console.ppu.lcdc_7_lcd_enabled
          /\ cycles_run = LastPpuWrite + 1
    /\ \E w \in PpuWrites :
            Call("write", w, [c |-> write(console, w[1], w[2]), ret |-> 0])
    /\ calls' = Append(calls, <<"write", cycles_run>>)
    /\ UNCHANGED <<cpu_delay, position, cycles_run>>

NextPpu == PpuTick \/ PpuWrite

SpecPpu == InitPpu /\ [][NextPpu]_vars

----------------------------------------------------------------------------
(* SpecMapper: a battery-backed MBC1 cartridge with two RAM banks and no   *)
(* save file, written and read through the bus, with the persistence       *)
(* worker running beside it; the cartridge is dropped and constructed      *)
(* again from the save file.  calls logs the bus writes with their address *)
(* and value, and the reloads.                                             *)

MaxMapperCalls == 3

MaxReloads == 1

\* The RAM gate, the RAM bank select and two bytes of cartridge RAM.
MapperAddresses == {\h0000, \h4000, \hA000, \hA001}

MapperValues == {\h00, \h01, \h0A}

MapperRamBanks == 2

MapperRom == [k \in 1..2 |-> MarkedBank(k - 1)]

MapperWrites == {i \in 1..Len(calls) : calls[i][1] = "write"}

MapperReloads == {i \in 1..Len(calls) : calls[i][1] = "reload"}

InitMapper ==
    /\ console = GBConsole_new(MBC1_new(MapperRom, MapperRamBanks, TRUE))
    /\ pre = console
    /\ ret = 0
    /\ last_call = "new"
    /\ args = <<>>
    /\ DriverIdle

MapperWrite ==
    /\ Cardinality(MapperWrites) < MaxMapperCalls
    /\ console.cartridge.save_sender
    /\ \E address \in MapperAddresses, value \in MapperValues :
            /\ Call("write", <<address, value>>,
                    [c |-> write(console, address, value), ret |-> 0])
            /\ calls' = Append(calls, <<"write", address, value>>)
    /\ UNCHANGED <<cpu_delay, position, cycles_run>>

MapperRead ==
    /\ console.cartridge.save_sender
    /\ \E address \in MapperAddresses \cap (\hA000..\hBFFF) :
            Call("read", <<address>>,
                 [c |-> reading(console, address), ret |-> read(console, address)])
    /\ DriverUnchanged

\* The worker runs whether or not the emulation thread still does.
Worker(name, cartridge) ==
    /\ console' = [console EXCEPT !.cartridge = cartridge]
    /\ gbemu' = gbemu
    /\ apu' = apu
    /\ pre' = console
    /\ last_call' = name
    /\ args' = <<>>
    /\ ret' = 0
    /\ DriverUnchanged

WorkerReceive ==
    /\ console.cartridge.save_worker = "running"
    /\ console.cartridge.save_channel # <<>>
    /\ Worker("write_thread", write_thread_receive(console.cartridge))

\* A seek or a write fails while a message is handled, or the flush fails.
WorkerIoError ==
    /\ console.cartridge.save_worker = "running"
    /\ console.cartridge.save_channel # <<>> \/ ~console.cartridge.save_sender
    /\ Worker("io_error", write_thread_io_error(console.cartridge))

WorkerFlush ==
    /\ console.cartridge.save_worker = "running"
    /\ console.cartridge.save_channel = <<>>
    /\ ~console.cartridge.save_sender
    /\ Worker("flush", write_thread_flush(console.cartridge))

MapperDrop ==
    /\ console.cartridge.save_sender
    /\ Worker("drop", MBC1_drop(console.cartridge))

MapperReload ==
    /\ console.cartridge.save_worker = "flushed"
    /\ Cardinality(MapperReloads) < MaxReloads
    /\ console' = GBConsole_new(MBC1_new_from(MapperRom, MapperRamBanks, TRUE, TRUE,
                                              console.cartridge.save_file))
    /\ pre' = console
    /\ last_call' = "reload"
    /\ args' = <<>>
    /\ ret' = 0
    /\ calls' = Append(calls, <<"reload", 0, 0>>)
    /\ gbemu' = gbemu
    /\ apu' = apu
    /\ UNCHANGED <<cpu_delay, position, cycles_run>>

NextMapper ==
    \/ MapperWrite
    \/ MapperRead
    \/ WorkerReceive
    \/ WorkerIoError
    \/ WorkerFlush
    \/ MapperDrop
    \/ MapperReload

SpecMapper == InitMapper /\ [][NextMapper]_vars

----------------------------------------------------------------------------
(* SpecChangeRom: the UI thread picking ROM files (app.rs:37-44) beside    *)
(* the emulation thread of GBEmu::new (gbemu.rs:41-49), which waits for    *)
(* the first request, clears it and runs GBEmu::processor.  The body of    *)
(* the frame loop (gbemu.rs:108-153, the specification Spec) acts on the   *)
(* console and on locals of processor only; one frame is one step here,    *)
(* and cycles_run counts the frames modulo MaxFrames.                      *)

MaxFrames == 6

RomPaths == {"a.gb", "b.gb", "c.gb", "d.gb"}

\* The cartridge GBConsole::new builds from the file at the path.
RomFile(path) ==
    CASE path = "a.gb" -> NoMBCCartridge(ZeroRom)
      [] path = "b.gb" -> NoMBCCartridge(ProgramRom(\h00, \h76, \h00))
      [] path = "c.gb" -> MBC1Cartridge(2, 0)
      [] OTHER -> MBC1Cartridge(2, 1)

\* GBEmu::default (gbemu.rs:20-29); no console exists before the first ROM
\* is loaded, and the variable holds the console of the first file.
InitChangeRom ==
    /\ gbemu = [rom_file_path |-> <<>>, file_changed |-> FALSE]
    /\ apu = APU_new
    /\ console = GBConsole_new(RomFile("a.gb"))
    /\ pre = console
    /\ ret = 0
    /\ last_call = "new"
    /\ args = <<>>
    /\ cpu_delay = 255
    /\ position = <<"waiting", 0>>
    /\ calls = <<>>
    /\ cycles_run = 0

\* app.rs:37-42: Open Rom stores the path and raises the flag.
OpenRom ==
    /\ \E path \in RomPaths :
            gbemu' = [rom_file_path |-> <<path>>, file_changed |-> TRUE]
    /\ UNCHANGED <<console, ret, last_call, pre, cpu_delay, position, calls, cycles_run, args, apu>>

\* gbemu.rs:42-47: the loop leaves when it loads true, and the flag is cleared.
ObserveFirstRequest ==
    /\ position = <<"waiting", 0>>
    /\ gbemu.file_changed
    /\ gbemu' = [gbemu EXCEPT !.file_changed = FALSE]
    /\ position' = <<"starting", 0>>
    /\ UNCHANGED <<console, ret, last_call, pre, cpu_delay, calls, cycles_run, args, apu>>

\* gbemu.rs:51-95: processor copies the path and constructs the console.
StartProcessor ==
    /\ position = <<"starting", 0>>
    /\ console' = GBConsole_new(RomFile(gbemu.rom_file_path[1]))
    /\ pre' = console
    /\ last_call' = "new"
    /\ args' = gbemu.rom_file_path
    /\ ret' = 0
    /\ position' = <<"frame", 0>>
    /\ UNCHANGED <<gbemu, cpu_delay, calls, cycles_run, apu>>

\* gbemu.rs:107-155: one pass of the '_Frame loop, which has no exit.
RunFrame ==
    /\ position = <<"frame", 0>>
    /\ cycles_run' = (cycles_run + 1) % MaxFrames
    /\ UNCHANGED <<console, ret, last_call, pre, cpu_delay, position, calls, args, gbemu, apu>>

EmulationThread == ObserveFirstRequest \/ StartProcessor \/ RunFrame

NextChangeRom == OpenRom \/ ObserveFirstRequest \/ StartProcessor \/ RunFrame

\* The emulation thread is scheduled again and again.
SpecChangeRom == InitChangeRom /\ [][NextChangeRom]_vars /\ WF_vars(EmulationThread)

----------------------------------------------------------------------------
(* SpecApu: register writes to the APU from its state after APU::new,      *)
(* interleaved with updates of its DIV-APU timer.  position[2] counts the  *)
(* writes, cycles_run the timer updates; last_call and args name the last  *)
(* call made on the APU.                                                   *)

MaxApuWrites == 3

MaxApuTicks == 4

\* NR10, NR12, NR14, NR24, NR30, NR34, NR42, NR44, NR52
ApuAddresses == {\hFF10, \hFF12, \hFF14, \hFF19, \hFF1A, \hFF1E, \hFF21, \hFF23, \hFF26}

\* DAC off; sweep pace 1, step 1; trigger (DAC on); trigger, length enable
\* and period bits 111.
ApuValues == {\h00, \h11, \h80, \hC7}

InitApu ==
    /\ apu = APU_new
    /\ console = GBConsole_new(NoMBCCartridge(ZeroRom))
    /\ pre = console
    /\ ret = 0
    /\ last_call = "new"
    /\ args = <<>>
    /\ gbemu = GBEmuStarted("rom.gb")
    /\ cpu_delay = 255
    /\ position = <<"apu", 0>>
    /\ calls = <<>>
    /\ cycles_run = 0

ApuWrite ==
    /\ position[2] < MaxApuWrites
    /\ ~apu.panicked
    /\ \E address \in ApuAddresses, value \in ApuValues :
            /\ apu' = APU_write(apu, address, value)
            /\ args' = <<address, value>>
    /\ last_call' = "write"
    /\ position' = <<"apu", position[2] + 1>>
    /\ UNCHANGED <<console, ret, pre, cpu_delay, calls, cycles_run, gbemu>>

ApuTimerTick ==
    /\ cycles_run < MaxApuTicks
    /\ ~apu.panicked
    /\ apu' = update_apu_timer(apu)
    /\ last_call' = "update_apu_timer"
    /\ args' = <<>>
    /\ cycles_run' = cycles_run + 1
    /\ UNCHANGED <<console, ret, pre, cpu_delay, position, calls, gbemu>>

NextApu == ApuWrite \/ ApuTimerTick

SpecApu == InitApu /\ [][NextApu]_vars

----------------------------------------------------------------------------
(* SpecOamScan: the program switches the display off, writes the Y byte of *)
(* the first entries of OAM, switches the display on with objects enabled  *)
(* and lets the PPU run over the first lines.  position is <<phase, n>>,   *)
(* n being the number of OAM entries written; cycles_run counts the calls  *)
(* of update_ppu since the display was switched on.                        *)

MaxObjects == 11

MaxOamTicks == 1368

\* Y bytes above, at and below the first line an object of either height
\* can cover.
OamYs == {\h00, \h0A, \h0F, \h10, \h11, \h12}

\* LCDC with the display, the background and objects on, short or tall.
OamLcdControls == {\h93, \h97}

InitOamScan ==
    /\ console = GBConsole_new(NoMBCCartridge(ZeroRom))
    /\ pre = console
    /\ ret = 0
    /\ last_call = "new"
    /\ args = <<>>
    /\ gbemu = GBEmuStarted("rom.gb")
    /\ apu = APU_new
    /\ cpu_delay = 255
    /\ position = <<"power_on", 0>>
    /\ calls = <<>>
    /\ cycles_run = 0

OamLcdOff ==
    /\ position = <<"power_on", 0>>
    /\ Call("write", <<\hFF40, \h11>>, [c |-> write(console, \hFF40, \h11), ret |-> 0])
    /\ position' = <<"setup", 0>>
    /\ UNCHANGED <<cpu_delay, calls, cycles_run>>

\* The entries are written in index order, all with the Y byte of the first.
OamFill ==
    /\ position[1] = "setup"
    /\ position[2] < MaxObjects
    /\ \E y \in OamYs :
            /\ position[2] > 0 => y = Get(console.ppu.object_attribute_memory, 0)
            /\ Call("write", <<\hFE00 + 4 * position[2], y>>,
                    [c |-> write(console, \hFE00 + 4 * position[2], y), ret |-> 0])
    /\ position' = <<"setup", position[2] + 1>>
    /\ UNCHANGED <<cpu_delay, calls, cycles_run>>

OamLcdOn ==
    /\ position[1] = "setup"
    /\ \E value \in OamLcdControls :
            Call("write", <<\hFF40, value>>, [c |-> write(console, \hFF40, value), ret |-> 0])
    /\ position' = <<"run", position[2]>>
    /\ UNCHANGED <<cpu_delay, calls, cycles_run>>

OamTick ==
    /\ position[1] = "run"
    /\ cycles_run < MaxOamTicks
    /\ Call("update_ppu", <<>>, update_ppu(console))
    /\ cycles_run' = cycles_run + 1
    /\ UNCHANGED <<cpu_delay, position, calls>>

NextOamScan == OamLcdOff \/ OamFill \/ OamLcdOn \/ OamTick

SpecOamScan == InitOamScan /\ [][NextOamScan]_vars

----------------------------------------------------------------------------
(* SpecPixels: the program switches the display off, writes one row of the *)
(* background tile and of an object tile, one or two overlapping objects   *)
(* and the scroll register, switches the display on and lets the PPU draw  *)
(* the first lines.  position is <<phase, n>>, n being the number of       *)
(* set-up writes made; cycles_run counts the calls of update_ppu since the *)
(* display was switched on.                                                *)

MaxPixelTicks == 1000

\* The bus writes of the set-up, in program order: the address and the
\* values the program may write there.  Row 1 of tile 0 (the background of
\* the zero-filled tile map) and of tile 1 (the objects); object 0 at Y 16,
\* X 8 or 12, with or without background priority; object 1 absent or two
\* pixels right of X 8; SCX 0 or 3.
PixelSetup ==
    << <<\h8002, {\h00, \hF0}>>,
       <<\h8012, {\h00, \hCC}>>,
       <<\hFE00, {\h10}>>,
       <<\hFE01, {\h08, \h0C}>>,
       <<\hFE02, {\h01}>>,
       <<\hFE03, {\h00, \h80}>>,
       <<\hFE04, {\h00, \h10}>>,
       <<\hFE05, {\h0A}>>,
       <<\hFE06, {\h01}>>,
       <<\hFF43, {\h00, \h03}>> >>

\* LCDC with the display and the background on, objects off or on.
PixelLcdControls == {\h91, \h93}

InitPixels ==
    /\ console = GBConsole_new(NoMBCCartridge(ZeroRom))
    /\ pre = console
    /\ ret = 0
    /\ last_call = "new"
    /\ args = <<>>
    /\ gbemu = GBEmuStarted("rom.gb")
    /\ apu = APU_new
    /\ cpu_delay = 255
    /\ position = <<"power_on", 0>>
    /\ calls = <<>>
    /\ cycles_run = 0

PixelLcdOff ==
    /\ position = <<"power_on", 0>>
    /\ Call("write", <<\hFF40, \h11>>, [c |-> write(console, \hFF40, \h11), ret |-> 0])
    /\ position' = <<"setup", 0>>
    /\ UNCHANGED <<cpu_delay, calls, cycles_run>>

PixelSetupWrite ==
    /\ position[1] = "setup"
    /\ position[2] < Len(PixelSetup)
    /\ LET address == PixelSetup[position[2] + 1][1]
       IN  \E value \in PixelSetup[position[2] + 1][2] :
                Call("write", <<address, value>>,
                     [c |-> write(console, address, value), ret |-> 0])
    /\ position' = <<"setup", position[2] + 1>>
    /\ UNCHANGED <<cpu_delay, calls, cycles_run>>

PixelLcdOn ==
    /\ position = <<"setup", Len(PixelSetup)>>
    /\ \E value \in PixelLcdControls :
            Call("write", <<\hFF40, value>>, [c |-> write(console, \hFF40, value), ret |-> 0])
    /\ position' = <<"run", 0>>
    /\ UNCHANGED <<cpu_delay, calls, cycles_run>>

PixelTick ==
    /\ position[1] = "run"
    /\ cycles_run < MaxPixelTicks
    /\ Call("update_ppu", <<>>, update_ppu(console))
    /\ cycles_run' = cycles_run + 1
    /\ UNCHANGED <<cpu_delay, position, calls>>

NextPixels == PixelLcdOff \/ PixelSetupWrite \/ PixelLcdOn \/ PixelTick

SpecPixels == InitPixels /\ [][NextPixels]_vars

----------------------------------------------------------------------------
(* SpecSweep: the program enables the DAC of channel 1, writes the sweep   *)
(* register and the period, and triggers the channel with the length      *)
(* timer off; the DIV-APU timer is then updated.  position is <<phase, n>>,*)
(* n being the number of set-up writes made; cycles_run counts the timer   *)
(* updates; calls holds <<"trigger", period, enabled>> followed by one     *)
(* <<"sweep", period, enabled>> per sweep tick of the frame sequencer.     *)

MaxSweepTicks == 64

\* The register writes of the set-up, in program order: NR12 (DAC on);
\* NR10 with pace 1 or 2, shift 1 or 2, adding or subtracting; NR13; NR14
\* with the high period bits; NR14 with the trigger bit and the same bits.
SweepSetup ==
    << <<\hFF12, {\hF0}>>,
       <<\hFF10, {\h11, \h12, \h21, \h19}>>,
       <<\hFF13, {\h80, \hFF}>>,
       <<\hFF14, {\h00, \h03}>> >>

InitSweep ==
    /\ apu = APU_new
    /\ console = GBConsole_new(NoMBCCartridge(ZeroRom))
    /\ pre = console
    /\ ret = 0
    /\ last_call = "new"
    /\ args = <<>>
    /\ gbemu = GBEmuStarted("rom.gb")
    /\ cpu_delay = 255
    /\ position = <<"setup", 0>>
    /\ calls = <<>>
    /\ cycles_run = 0

SweepSetupWrite ==
    /\ position[1] = "setup"
    /\ position[2] < Len(SweepSetup)
    /\ LET address == SweepSetup[position[2] + 1][1]
       IN  \E value \in SweepSetup[position[2] + 1][2] :
                /\ apu' = APU_write(apu, address, value)
                /\ args' = <<address, value>>
    /\ last_call' = "write"
    /\ position' = <<"setup", position[2] + 1>>
    /\ UNCHANGED <<console, ret, pre, cpu_delay, calls, cycles_run, gbemu>>

\* The trigger write repeats the high period bits written before it.
SweepTrigger ==
    /\ position = <<"setup", Len(SweepSetup)>>
    /\ LET value == \h80 + apu.ch_1_3_period \div 256
       IN  /\ apu' = APU_write(apu, \hFF14, value)
           /\ args' = <<\hFF14, value>>
    /\ last_call' = "write"
    /\ position' = <<"run", 0>>
    /\ calls' = << <<"trigger", apu.ch_1_3_period, apu'.ch_1_enable>> >>
    /\ UNCHANGED <<console, ret, pre, cpu_delay, cycles_run, gbemu>>

SweepTimerTick ==
    /\ position[1] = "run"
    /\ cycles_run < MaxSweepTicks
    /\ apu' = update_apu_timer(apu)
    /\ last_call' = "update_apu_timer"
    /\ args' = <<>>
    /\ cycles_run' = cycles_run + 1
    /\ calls' = IF falls(apu.apu_counter, apu'.apu_counter, 2)
                THEN Append(calls, <<"sweep", apu'.ch_1_3_period, apu'.ch_1_enable>>)
                ELSE calls
    /\ UNCHANGED <<console, ret, pre, cpu_delay, position, gbemu>>

NextSweep == SweepSetupWrite \/ SweepTrigger \/ SweepTimerTick

SpecSweep == InitSweep /\ [][NextSweep]_vars

----------------------------------------------------------------------------
(* SpecSamples: the APU is built for an output device, the program writes  *)
(* sound registers (among them the master enable in NR52) and update_apu   *)
(* runs once per machine cycle.  calls is the content of the channel to    *)
(* the audio thread, oldest sample first; ret holds what the last          *)
(* update_apu sent; cycles_run counts the update_apu calls and position[2] *)
(* the register writes.                                                    *)

MaxSampleCalls == 24

MaxSampleWrites == 3

\* Sample rates of the output device: ratios of 11 and 6 machine cycles.
SampleRates == {96000, 192000}

\* NR52 off and on; NR12 (DAC of channel 1 on, volume 15); NR13 and NR14
\* (period 0x7FF, trigger).
SampleWrites ==
    {<<\hFF26, \h00>>, <<\hFF26, \h80>>, <<\hFF12, \hF0>>, <<\hFF13, \hFF>>, <<\hFF14, \h87>>}

InitSamples ==
    /\ \E sample_rate \in SampleRates : apu = APU_new_at(sample_rate)
    /\ console = GBConsole_new(NoMBCCartridge(ZeroRom))
    /\ pre = console
    /\ ret = <<>>
    /\ last_call = "new"
    /\ args = <<>>
    /\ gbemu = GBEmuStarted("rom.gb")
    /\ cpu_delay = 255
    /\ position = <<"samples", 0>>
    /\ calls = <<>>
    /\ cycles_run = 0

SampleWrite ==
    /\ position[2] < MaxSampleWrites
    /\ \E w \in SampleWrites :
            /\ apu' = APU_write(apu, w[1], w[2])
            /\ args' = w
    /\ last_call' = "write"
    /\ position' = <<"samples", position[2] + 1>>
    /\ UNCHANGED <<console, ret, pre, cpu_delay, calls, cycles_run, gbemu>>

SampleUpdate ==
    /\ cycles_run < MaxSampleCalls
    /\ LET r == APU_update_apu(apu)
       IN  /\ apu' = r.c
           /\ ret' = r.ret
           /\ calls' = calls \o r.ret
    /\ last_call' = "update_apu"
    /\ args' = <<>>
    /\ cycles_run' = cycles_run + 1
    /\ UNCHANGED <<console, pre, cpu_delay, position, gbemu>>

NextSamples == SampleWrite \/ SampleUpdate

SpecSamples == InitSamples /\ [][NextSamples]_vars

----------------------------------------------------------------------------
(* SpecTimerRate: update_timer called once per machine cycle on a console  *)
(* whose timer control and divider were set before; the program may write  *)
(* the divider register 0xFF04.  cycles_run counts the update_timer calls, *)
(* calls holds the numbers of the calls that incremented the counter and   *)
(* position[2] counts the writes of 0xFF04.                                *)

MaxRateCalls == 260

MaxDividerWrites == 1

MaxCallsBeforeDividerWrite == 12

\* Timer off with clock select 0 and 1; timer on with clock select 0 to 3.
RateControls == {\hF8, \hF9, \hFC, \hFD, \hFE, \hFF}

\* The power-on divider, a divider one call before 0 and one two calls
\* before a multiple of 256.
RateDividers == {\h2AC0, \hFFFF, \h00FE}

InitTimerRate ==
    /\ \E tac \in RateControls, divider \in RateDividers :
            console = [GBConsole_new(NoMBCCartridge(ZeroRom)) EXCEPT
                          !.timer_control = tac,
                          !.timer_divider = divider]
    /\ pre = console
    /\ ret = 0
    /\ last_call = "new"
    /\ args = <<>>
    /\ gbemu = GBEmuStarted("rom.gb")
    /\ apu = APU_new
    /\ cpu_delay = 255
    /\ position = <<"timer", 0>>
    /\ calls = <<>>
    /\ cycles_run = 0

\* The counter after the deferred reload of update_timer (console.rs:436-440).
reloaded_counter(C) == IF C.timer_overflowed THEN C.timer_modulo ELSE C.timer_counter

RateTick ==
    /\ cycles_run < MaxRateCalls
    /\ Call("update_timer", <<>>, update_timer(console))
    /\ cycles_run' = cycles_run + 1
    /\ calls' = IF console'.timer_counter = u8(reloaded_counter(console) + 1)
                THEN Append(calls, cycles_run + 1)
                ELSE calls
    /\ UNCHANGED <<cpu_delay, position>>

RateDividerWrite ==
    /\ position[2] < MaxDividerWrites
    /\ cycles_run <= MaxCallsBeforeDividerWrite
    /\ \E value \in {\h00, \h5A} :
            Call("write", <<\hFF04, value>>, [c |-> write(console, \hFF04, value), ret |-> 0])
    /\ position' = <<"timer", position[2] + 1>>
    /\ UNCHANGED <<cpu_delay, calls, cycles_run>>

NextTimerRate == RateTick \/ RateDividerWrite

SpecTimerRate == InitTimerRate /\ [][NextTimerRate]_vars

----------------------------------------------------------------------------
(* Claims about handle_interrupt.                                          *)

HasBit(x, i) == (x \div (2 ^ i)) % 2 = 1

\* IE & IF & 0x1F
PendingInterrupts(C) == BitAnd(BitAnd(C.interrupt_enable, C.interrupt_flag), \h1F)

LowestSetBit(x) == CHOOSE i \in 0..7 : HasBit(x, i) /\ \A j \in 0..(i - 1) : ~HasBit(x, j)

\* Everything but the halt state is as before the call.
OnlyHaltStateChanged == [console EXCEPT !.is_halted = pre.is_halted] = pre

\* The address is backed by work RAM (directly or through the echo) or high
\* RAM, where a bus write is always stored.
InPlainRam(address) ==
    region(address) \in {"working_ram", "aux_working_ram", "echo_ram", "high_ram"}

ServiceRequested == pre.interrupt_master_enable_flag = "Enabled" /\ PendingInterrupts(pre) # 0

Serviced(i, sp) ==
    /\ ~console.panicked
    /\ ret = 20
    /\ console.stack_pointer = sp
    /\ console.program_counter = \h40 + 8 * i
    /\ console.interrupt_master_enable_flag = "Disabled"

\* C1 as stated: with IME Enabled and IE & IF & 0x1F non-zero,
\* handle_interrupt services the lowest set bit i: SP decreases by 2, the old
\* PC is stored little-endian at the new SP, PC = 0x40 + 8i, IF bit i is
\* cleared and the other IF bits are unchanged, IME is Disabled, 20 is
\* returned; in every other case 0 is returned and nothing but the halt state
\* changes.
C1_ServicesLowestPending ==
    (last_call = "handle_interrupt") =>
        IF ServiceRequested
        THEN LET i == LowestSetBit(PendingInterrupts(pre))
                 sp == u16(pre.stack_pointer - 2)
             IN  /\ Serviced(i, sp)
                 /\ read(console, sp) = lsb_of(pre.program_counter)
                 /\ read(console, u16(sp + 1)) = msb_of(pre.program_counter)
                 /\ console.interrupt_flag = pre.interrupt_flag - 2 ^ i
        ELSE ret = 0 /\ OnlyHaltStateChanged

\* C1 amended: the same, except that the call aborts when the new SP is
\* 0xFFFF (the 16-bit bus write refuses that address), that the old PC is
\* written through the bus and so reads back at the new SP when both bytes lie
\* in work, echo or high RAM, and that the other IF bits are unchanged unless
\* the push itself wrote the IF register (new SP 0xFF0E or 0xFF0F).
C1_ServicesLowestPendingThroughBus ==
    (last_call = "handle_interrupt") =>
        IF ServiceRequested
        THEN LET i == LowestSetBit(PendingInterrupts(pre))
                 sp == u16(pre.stack_pointer - 2)
             IN  IF sp = \hFFFF THEN console.panicked
                 ELSE /\ Serviced(i, sp)
                      /\ (InPlainRam(sp) /\ InPlainRam(sp + 1)) =>
                            read_16(console, sp) = pre.program_counter
                      /\ (sp \notin {\hFF0E, \hFF0F}) =>
                            console.interrupt_flag = pre.interrupt_flag - 2 ^ i
        ELSE ret = 0 /\ OnlyHaltStateChanged

\* The timer interrupt is serviced although V-blank is requested but not
\* enabled, from PC 0xC123 with the stack in work RAM.
C1_Witness ==
    /\ last_call = "handle_interrupt"
    /\ ret = 20
    /\ pre.interrupt_enable = 4
    /\ pre.interrupt_flag = 5
    /\ pre.program_counter = \hC123
    /\ pre.stack_pointer = \hD000
    /\ console.program_counter = \h50
    /\ console.interrupt_flag = 1
    /\ read_16(console, \hCFFE) = \hC123

----------------------------------------------------------------------------
(* Claims about execute_instruction.                                       *)

Executed == last_call = "execute_instruction" /\ ~console.panicked

\* The accumulator operation `operator` in its register, [HL] or n8 form.
IsAlu(opcode, operator) ==
    /\ block(opcode) = 2 \/ (block(opcode) = 3 /\ column(opcode) = 6)
    /\ row(opcode) = operator

\* The operand b the executed accumulator operation met.
OperandOf(opcode) ==
    IF block(opcode) = 3 THEN args[2]
    ELSE IF column(opcode) = 6 THEN read(pre, HL(pre))
    ELSE r8(pre, column(opcode))

FlagsOf(z, n, h, c) ==
    (IF z THEN 128 ELSE 0) + (IF n THEN 64 ELSE 0) + (IF h THEN 32 ELSE 0)
    + (IF c THEN 16 ELSE 0)

\* C7: for all 8-bit a and b, ADD A,b leaves (a+b) mod 256 in A, sets Z iff
\* that is 0, clears N, sets H iff (a & 0xF) + (b & 0xF) > 0xF and C iff
\* a + b > 0xFF; SUB A,b and CP A,b set Z iff a = b, set N, set H iff
\* (a & 0xF) < (b & 0xF) and C iff a < b, and CP leaves A unchanged; in the
\* register, [HL] and immediate forms alike.
C7_AddSubCpFlags ==
    Executed =>
        LET opcode == args[1]
            a == pre.a
            b == OperandOf(opcode)
        IN  /\ IsAlu(opcode, 0) =>
                  /\ console.a = (a + b) % 256
                  /\ console.flags = FlagsOf((a + b) % 256 = 0, FALSE,
                                             (a % 16) + (b % 16) > 15, a + b > 255)
            /\ IsAlu(opcode, 2) =>
                  /\ console.a = (a - b) % 256
                  /\ console.flags = FlagsOf(a = b, TRUE, a % 16 < b % 16, a < b)
            /\ IsAlu(opcode, 7) =>
                  /\ console.a = a
                  /\ console.flags = FlagsOf(a = b, TRUE, a % 16 < b % 16, a < b)

\* SUB A, n8 of 0x01 from 0x10 borrows from bit 4 only.
C7_Witness ==
    /\ Executed
    /\ args = <<214, 1>>
    /\ pre.a = 16
    /\ console.a = 15
    /\ console.flags = N_SUBTRACTION_FLAG + H_HALF_CARRY_FLAG
    /\ ret = 4

\* C8: for all 8-bit a, b and carry-in c, ADC A,b sets H iff
\* (a & 0xF) + (b & 0xF) + c > 0xF and C iff a + b + c > 0xFF; SBC A,b sets H
\* iff (a & 0xF) < (b & 0xF) + c and C iff a < b + c; both set Z iff the 8-bit
\* result is zero.
C8_AdcSbcFlags ==
    Executed =>
        LET opcode == args[1]
            a == pre.a
            b == OperandOf(opcode)
            c == IF (pre.flags \div 16) % 2 = 1 THEN 1 ELSE 0
        IN  /\ IsAlu(opcode, 1) =>
                  console.flags = FlagsOf((a + b + c) % 256 = 0, FALSE,
                                          (a % 16) + (b % 16) + c > 15, a + b + c > 255)
            /\ IsAlu(opcode, 3) =>
                  console.flags = FlagsOf((a - b - c) % 256 = 0, TRUE,
                                          a % 16 < (b % 16) + c, a < b + c)

\* C9: the low nibble of the flags register is zero in every state, POP AF
\* of an arbitrary stack value included.
C9_FlagsLowNibbleZero == console.flags % 16 = 0

\* POP AF of the stacked word 0xC2FF.
C9_Witness ==
    /\ Executed
    /\ args[1] = 241
    /\ read_16(pre, pre.stack_pointer) = \hC2FF
    /\ console.a = \hC2
    /\ console.flags = \hF0
    /\ console.stack_pointer = u16(pre.stack_pointer + 2)

\* The conditional control transfers: JR cc, JP cc, CALL cc, RET cc.
ConditionalJr == {32, 40, 48, 56}

ConditionalJp == {194, 202, 210, 218}

ConditionalCall == {196, 204, 212, 220}

ConditionalRet == {192, 200, 208, 216}

\* The condition NZ, Z, NC, C of the opcode on the flags before the call.
ConditionHolds(opcode) ==
    LET zero == (pre.flags \div 128) % 2 = 1
        carry == (pre.flags \div 16) % 2 = 1
    IN  CASE row(opcode) % 4 = 0 -> ~zero
          [] row(opcode) % 4 = 1 -> zero
          [] row(opcode) % 4 = 2 -> ~carry
          [] OTHER -> carry

\* The call returned taken or not_taken by the condition, and a transfer not
\* taken changed nothing but PC, advanced by length.
CountsAre(opcode, taken, not_taken, length) ==
    IF ConditionHolds(opcode) THEN ret = taken
    ELSE /\ ret = not_taken
         /\ console = [pre EXCEPT !.program_counter = u16(@ + length)]

\* C10: every conditional control transfer returns the taken count exactly
\* when its condition holds and the not-taken count otherwise (JR cc 12 / 8,
\* JP cc 16 / 12, CALL cc 24 / 12, RET cc 20 / 8); not taken, PC advances by
\* the instruction length (2, 3, 3, 1) and SP and the stack are unchanged.
C10_ConditionalCycleCounts ==
    Executed =>
        LET opcode == args[1]
        IN  /\ opcode \in ConditionalJr => CountsAre(opcode, 12, 8, 2)
            /\ opcode \in ConditionalJp => CountsAre(opcode, 16, 12, 3)
            /\ opcode \in ConditionalCall => CountsAre(opcode, 24, 12, 3)
            /\ opcode \in ConditionalRet => CountsAre(opcode, 20, 8, 1)

\* CALL Z taken with the zero flag set: 24 cycles, the return address pushed.
C10_Witness ==
    /\ Executed
    /\ args = <<204, \hFF>>
    /\ (pre.flags \div 128) % 2 = 1
    /\ ret = 24
    /\ console.program_counter = \hC2FF
    /\ console.stack_pointer = u16(pre.stack_pointer - 2)
    /\ read_16(console, console.stack_pointer) = u16(pre.program_counter + 3)

----------------------------------------------------------------------------
(* Claims about the bus.                                                   *)

\* The call left everything outside the owner of the address as it was.
OnlyOwnerTouched(address) ==
    CASE owner(address) = "cartridge" -> [console EXCEPT !.cartridge = pre.cartridge] = pre
      [] owner(address) = "ppu" -> [console EXCEPT !.ppu = pre.ppu] = pre
      [] OTHER -> console.cartridge = pre.cartridge /\ console.ppu = pre.ppu

\* C2: for every address and every mapper variant the bus read returns a byte
\* and the bus write completes, each forwarded to the one owner of the
\* address range (cartridge for [0x0000,0x8000) and [0xA000,0xC000), PPU for
\* VRAM, OAM and the PPU registers, the console otherwise); no address makes
\* read or write abort.
C2_BusNeverAborts ==
    (last_call \in {"read", "write"}) =>
        /\ ~console.panicked
        /\ ret \in Byte
        /\ OnlyOwnerTouched(args[1])
        /\ owner(args[1]) = "cartridge" <=>
              (args[1] < \h8000 \/ (args[1] >= \hA000 /\ args[1] < \hC000))

----------------------------------------------------------------------------
(* Claims about the power-on scenario.                                     *)

\* The ROM holds XOR A at the entry point 0x0100 and HALT behind it.
XorAThenHaltLoaded ==
    /\ read(console, \h0100) = \hAF
    /\ read(console, \h0101) = \h76

\* C6: from the power-on state with XOR A and HALT at the entry point, the
\* first execute_instruction call leaves A = 0, flags = 0x80, PC = 0x0101 and
\* returns 4; the second call returns 4 and leaves the CPU halted.
C6_XorAThenHalt ==
    XorAThenHaltLoaded =>
        /\ (calls = <<"execute_instruction">>) =>
              /\ console.a = 0
              /\ console.flags = \h80
              /\ console.program_counter = \h0101
              /\ ret = 4
        /\ (calls = <<"execute_instruction", "execute_instruction">>) =>
              /\ ret = 4
              /\ console.is_halted

----------------------------------------------------------------------------
(* Claims about the cycle loop.                                            *)

\* The names of the calls made in cycle n, in the order they were made.
CycleCalls(n) ==
    LET InCycle(entry) == entry[1] = n
        made == SelectSeq(calls, InCycle)
    IN  [i \in 1..Len(made) |-> made[i][2]]

IsCpuCall(name) == name \in {"handle_interrupt", "get_instruction_delay", "execute_instruction"}

IsDeviceCall(name) == ~IsCpuCall(name)

CpuCalls(n) == SelectSeq(CycleCalls(n), IsCpuCall)

DeviceCalls(n) == SelectSeq(CycleCalls(n), IsDeviceCall)

CpuCallOrders ==
    { <<>>,
      <<"execute_instruction">>,
      <<"handle_interrupt">>,
      <<"handle_interrupt", "get_instruction_delay">>,
      <<"handle_interrupt", "get_instruction_delay", "execute_instruction">> }

CompletedCycles == 0..(cycles_run - 1)

----------------------------------------------------------------------------
(* Claims about EI, DI and HALT under the cycle loop.                      *)

EI == 251

DI == 243

NOP == 0

HALT == 118

\* The positions in calls of the instructions executed so far.
Executions == {i \in 1..Len(calls) : calls[i][2] = "execute_instruction"}


\* The position of the first instruction executed after position i, or the
\* end of calls when none was executed yet.
FollowingExecution(i) ==
    LET later == {j \in Executions : j > i}
    IN  IF later = {} THEN Len(calls) ELSE Min(later)

ServicedAt(k) == calls[k][2] = "handle_interrupt" /\ calls[k][3] = 20

\* C4: after EI executes, IME is Pending until the next instruction is
\* executed; no interrupt is serviced between EI and the end of the
\* instruction that follows it; after a DI that follows EI directly IME is
\* Disabled and no interrupt is serviced until the next instruction; after a
\* NOP or HALT that follows EI directly IME is Enabled until an interrupt
\* is serviced.
C4_EiTakesEffectAfterNextInstruction ==
    /\ (Executions # {} /\ calls[Max(Executions)][3] = EI) =>
            console.interrupt_master_enable_flag = "Pending"
    /\ \A i \in Executions :
            calls[i][3] = EI =>
                LET j == FollowingExecution(i)
                IN  /\ \A k \in i..j : ~ServicedAt(k)
                    /\ (j \in Executions /\ calls[j][3] = DI) =>
                            /\ \A k \in j..FollowingExecution(j) : ~ServicedAt(k)
                            /\ j = Max(Executions) =>
                                    console.interrupt_master_enable_flag = "Disabled"
                    /\ ( /\ j \in Executions
                          /\ calls[j][3] \in {NOP, HALT}
                          /\ \A k \in j..Len(calls) : ~ServicedAt(k)
                          /\ j = Max(Executions) ) =>
                            console.interrupt_master_enable_flag = "Enabled"

\* EI and then DI were executed while an interrupt enabled in IE was
\* requested, the interrupts were checked in between, and the cycle
\* loop checked them again after the DI.
C4_Witness ==
    /\ \E i \in Executions :
            /\ calls[i][3] = EI
            /\ FollowingExecution(i) \in Executions
            /\ calls[FollowingExecution(i)][3] = DI
            /\ \E k \in i..FollowingExecution(i) : calls[k][2] = "handle_interrupt"
            /\ FollowingExecution(i) = Max(Executions)
    /\ last_call = "handle_interrupt"
    /\ PendingInterrupts(pre) # 0

InterruptVectors == {\h40, \h48, \h50, \h58, \h60}

\* C5: a halted CPU stays halted over every call but a handle_interrupt call
\* made while one of IF bits 0-4 is set, and that call ends the halt whatever
\* IME and IE are; handle_interrupt redirects the program counter to a vector
\* exactly when IME is Enabled and a bit of IF bits 0-4 is also set in IE.
C5_HaltEndsOnRequest ==
    /\ (pre.is_halted /\ last_call \notin {"new", "none"}) =>
            (console.is_halted <=>
                ~(last_call = "handle_interrupt" /\ BitAnd(pre.interrupt_flag, \h1F) # 0))
    /\ (last_call = "handle_interrupt") =>
            IF ServiceRequested
            THEN /\ ret = 20
                 /\ console.program_counter \in InterruptVectors
                 /\ ~console.is_halted
            ELSE /\ ret = 0
                 /\ console.program_counter = pre.program_counter
                 /\ console.interrupt_flag = pre.interrupt_flag
                 /\ console.stack_pointer = pre.stack_pointer

\* A halted CPU with IME Disabled and nothing enabled in IE was woken by a
\* request in IF, and nothing was serviced.
C5_Witness ==
    /\ last_call = "handle_interrupt"
    /\ pre.is_halted
    /\ pre.interrupt_master_enable_flag = "Disabled"
    /\ pre.interrupt_enable = 0
    /\ ~console.is_halted
    /\ ret = 0

----------------------------------------------------------------------------
(* Claims about the decoder of execute_instruction.                        *)

CallN16 == 205

RstOpcodes == {199, 207, 215, 223, 231, 239, 247, 255}

AluN8Opcodes == {198, 206, 214, 222, 230, 238, 246, 254}

\* C11: CALL n16 returns 24, every RST returns 16 and every accumulator
\* operation on an immediate byte returns 8.
C11_UnconditionalCycleCounts ==
    Executed =>
        /\ (args[1] = CallN16) => ret = 24
        /\ (args[1] \in RstOpcodes) => ret = 16
        /\ (args[1] \in AluN8Opcodes) => ret = 8

PREFIX == 203

\* C12: execute_instruction ends in the "invalid opcode" arm for exactly the
\* eleven undefined opcodes and aborts there; no opcode and no byte behind
\* the prefix 0xCB ends in an "out of bounds" arm, and every other call
\* returns.
C12_AbortsOnUndefinedOpcodesOnly ==
    (last_call = "execute_instruction") =>
        /\ (decoder_arm(args[1]) = "invalid opcode") <=> (args[1] \in InvalidOpcodes)
        /\ decoder_arm(args[1]) # "out of bounds"
        /\ (args[1] = PREFIX) => prefixed_arm(args[2]) # "out of bounds"
        /\ (args[1] \in InvalidOpcodes) => console.panicked
        /\ (calls = <<"execute_instruction">> /\ args[1] \notin InvalidOpcodes) =>
                ~console.panicked

\* SET 0, A behind the prefix was executed and returned.
C12_Witness ==
    /\ Executed
    /\ args = <<PREFIX, 199>>
    /\ pre.a = \h80
    /\ console.a = \h81
    /\ ret = 8

----------------------------------------------------------------------------
(* Claims about the timer.                                                 *)

TimerBit == 4

\* The counter value the increment of the last update_timer call met: the
\* modulo when an overflow was pending, the counter before the call otherwise.
CounterMet == IF pre.timer_overflowed THEN pre.timer_modulo ELSE pre.timer_counter

\* The last update_timer call incremented the counter.
Counted ==
    /\ last_call = "update_timer"
    /\ BitAnd(pre.timer_control, 4) > 0
    /\ BitAnd(console.timer_divider, increment_every(pre.timer_control)) = 0

\* C13: the update_timer call that increments the counter from 0xFF leaves it
\* at 0x00 and does not set IF bit 2; the reload from the modulo and IF bit 2
\* come with the immediately following call and with no other.
C13_OverflowDeferredByOneStep ==
    /\ (Counted /\ CounterMet = \hFF) =>
            /\ console.timer_counter = \h00
            /\ console.timer_overflowed
            /\ BitAnd(console.interrupt_flag, TimerBit) = BitAnd(pre.interrupt_flag, TimerBit)
    /\ (last_call = "update_timer" /\ pre.timer_overflowed) =>
            /\ BitAnd(console.interrupt_flag, TimerBit) = TimerBit
            /\ console.timer_counter = (IF Counted THEN u8(pre.timer_modulo + 1)
                                        ELSE pre.timer_modulo)
    /\ (last_call = "update_timer" /\ ~pre.timer_overflowed) =>
            /\ console.interrupt_flag = pre.interrupt_flag
            /\ console.timer_counter = (IF Counted THEN u8(pre.timer_counter + 1)
                                        ELSE pre.timer_counter)

----------------------------------------------------------------------------
(* Claims about the OAM DMA transfer.                                      *)

DmaStarted == calls # <<>>

\* The page of the last write of 0xFF46 and the OAM that write found.
DmaPage == calls[Len(calls)][2]

OamAtWrite == calls[Len(calls)][3]

Oam(C) == C.ppu.object_attribute_memory

\* min(160, ceil(k / 4))
BytesCopiedAfter(k) == Min({160, (k + 3) \div 4})

\* The last call was the k-th update_ppu after the write of 0xFF46, k = 4i + 1.
CopyingTick == last_call = "update_ppu" /\ cycles_run % 4 = 1 /\ cycles_run <= 637

CopiedIndex == (cycles_run - 1) \div 4

\* C14: a write of page P <= 0xDF to 0xFF46 copies nothing by itself; the
\* (4i+1)-th following update_ppu copies the byte read at P:i at that moment
\* to OAM[i] (i in 0..159) and no other update_ppu changes OAM, so after k
\* of them the entries from min(160, ceil(k/4)) on are as the write found
\* them; the program does not abort on the way.
C14_DmaIsIncremental ==
    (DmaStarted /\ DmaPage <= \hDF) =>
        /\ ~console.panicked
        /\ (last_call = "write" /\ args[1] = \hFF46) => Oam(console) = Oam(pre)
        /\ \A i \in 0..159 :
                i >= BytesCopiedAfter(cycles_run) =>
                    Get(Oam(console), i) = Get(OamAtWrite, i)
        /\ CopyingTick =>
                /\ Get(Oam(console), CopiedIndex) =
                        read(pre, from_be_bytes(DmaPage, CopiedIndex))
                /\ \A i \in 0..159 :
                        i # CopiedIndex => Get(Oam(console), i) = Get(Oam(pre), i)
        /\ (last_call = "update_ppu" /\ ~CopyingTick) =>
                \A i \in 0..159 : Get(Oam(console), i) = Get(Oam(pre), i)

----------------------------------------------------------------------------
(* Claims about the PPU's scanline timing.                                 *)

Ticked == last_call = "update_ppu"

\* The display is on, no object is on any line and the window is off.
LcdOnNoObjectsOrWindow ==
    /\ console.ppu.lcdc_7_lcd_enabled
    /\ console.ppu.object_attribute_memory = EmptyMem
    /\ ~console.ppu.lcdc_5_window_enabled

\* The last update advanced the dot counter by one, or wrapped it from 455 to
\* 0 with LY advancing by one, 153 wrapping to 0.
LineAdvanced ==
    IF pre.ppu.dot_counter = 455
    THEN console.ppu.dot_counter = 0 /\ console.ppu.ly = (pre.ppu.ly + 1) % 154
    ELSE console.ppu.dot_counter = pre.ppu.dot_counter + 1 /\ console.ppu.ly = pre.ppu.ly

OamScanIsFirst80 ==
    console.ppu.ly < 144 =>
        (console.ppu.ppu_mode = PPU_MODE_2_OAM_SCAN <=> console.ppu.dot_counter < 80)

\* C15: with the LCD enabled and no objects or window, every scanline takes
\* exactly 456 PPU updates (the dot counter runs 0..455 and wraps with LY
\* advancing by one, 153 wrapping to 0), and on each visible line the PPU is
\* in OAM-scan mode during exactly the first 80 of them.
C15_ScanlineTiming ==
    LcdOnNoObjectsOrWindow =>
        /\ console.ppu.dot_counter <= 455
        /\ Ticked => (LineAdvanced /\ OamScanIsFirst80)

\* The positions in calls of the passes completed, with 0 for the power-on.
PassEnds == {i \in 1..Len(calls) : calls[i][1] = "pass"}

PassStarts == {0} \cup PassEnds

\* The pass that ends at position e of calls began at position s, and the
\* program wrote nothing during it.
WholePass(s, e) ==
    /\ s < e
    /\ \A i \in (s + 1)..(e - 1) : calls[i][1] = "frame"

PassLength(s, e) == calls[e][2] - (IF s = 0 THEN 0 ELSE calls[s][2])

C17_PixelTransferAtLeast172 ==
    (/\ Ticked
     /\ console.ppu.lcdc_7_lcd_enabled
     /\ console.ppu.ly < 144
     /\ pre.ppu.ppu_mode = PPU_MODE_3_DRAW_PIXELS
     /\ console.ppu.ppu_mode = PPU_MODE_0_HBLANK)
        => console.ppu.dot_counter >= 252

\* C18: after every PPU update, bits 0-1 of the status register are the
\* PPU's mode and bit 2 is set exactly when LY equals the LY-compare
\* register, whatever the program wrote to STAT, LYC or LCDC before, the
\* display switched off included.
C18_StatKeptCurrent ==
    Ticked =>
        /\ BitAnd(console.ppu.stat, 3) = console.ppu.ppu_mode
        /\ (BitAnd(console.ppu.stat, 4) = 4) <=> (console.ppu.ly = console.ppu.ly_compare)

----------------------------------------------------------------------------
(* Claims about the access lock-out of video RAM and OAM.                  *)

BusWritten(first, last) ==
    last_call = "write" /\ args[1] >= first /\ args[1] <= last

\* C19: a bus write to video RAM during pixel transfer, and a bus write to
\* OAM during OAM scan, change nothing in the PPU; the same writes store the
\* byte in H-blank and in V-blank.
C19_AccessLockOut ==
    /\ (BusWritten(\h8000, \h9FFF) /\ pre.ppu.ppu_mode = PPU_MODE_3_DRAW_PIXELS) =>
            console.ppu = pre.ppu
    /\ (BusWritten(\hFE00, \hFE9F) /\ pre.ppu.ppu_mode = PPU_MODE_2_OAM_SCAN) =>
            console.ppu = pre.ppu
    /\ (BusWritten(\h8000, \h9FFF)
            /\ pre.ppu.ppu_mode \in {PPU_MODE_0_HBLANK, PPU_MODE_1_VBLANK}) =>
            console.ppu = [pre.ppu EXCEPT
                              !.video_ram = Set(@, args[1] - \h8000, args[2])]
    /\ (BusWritten(\hFE00, \hFE9F)
            /\ pre.ppu.ppu_mode \in {PPU_MODE_0_HBLANK, PPU_MODE_1_VBLANK}) =>
            console.ppu = [pre.ppu EXCEPT
                              !.object_attribute_memory = Set(@, args[1] - \hFE00, args[2])]

\* A write to OAM in OAM scan that was dropped, after a run in which a write
\* to video RAM in H-blank or V-blank was stored.
C19_Witness ==
    /\ BusWritten(\hFE00, \hFE9F)
    /\ pre.ppu.ppu_mode = PPU_MODE_2_OAM_SCAN
    /\ Get(console.ppu.object_attribute_memory, 0) = 0

C19_WitnessVideoRam ==
    /\ BusWritten(\h8000, \h9FFF)
    /\ pre.ppu.ppu_mode = PPU_MODE_3_DRAW_PIXELS
    /\ Get(console.ppu.video_ram, 0) = 0

----------------------------------------------------------------------------
(* Claims about the bank-switching mapper.                                 *)

\* C20: after a write, to the ROM-bank-select range 0x2000-0x3FFF of an MBC1
\* cartridge, of a value whose bank bits (the low five) are 0, bank 1 is
\* selected and a read of 0x4000 returns the first byte of ROM bank 1.
C20_BankZeroSelectsBankOne ==
    (/\ last_call = "write"
     /\ args[1] >= \h2000 /\ args[1] <= \h3FFF
     /\ BitAnd(args[2], 31) = 0
     /\ console.cartridge.kind = "MBC1"
     /\ ~console.panicked)
        => /\ console.cartridge.aux_rom_bank_index = 1
           /\ ~read_panics(console, \h4000)
           /\ read(console, \h4000) = Get(console.cartridge.rom_banks[2], 0)

\* C21: after any sequence of writes the selected ROM bank of an MBC1
\* cartridge exists (its index is below the bank count), so that a read of
\* 0x4000-0x7FFF never indexes a bank the cartridge does not have.
C21_SelectedBankExists ==
    (console.cartridge.kind = "MBC1" /\ ~console.panicked) =>
        /\ console.cartridge.aux_rom_bank_index < Len(console.cartridge.rom_banks)
        /\ ~read_panics(console, \h4000)
        /\ ~read_panics(console, \h7FFF)

\* The writes to the RAM gate 0x0000-0x1FFF since the cartridge was
\* constructed (the last reload, or the start).
GateWrites ==
    {i \in MapperWrites : calls[i][2] <= \h1FFF /\ i > Max({0} \cup MapperReloads)}

\* The last write to the gate had the low nibble 0xA.
GateOpened == GateWrites # {} /\ BitAnd(calls[Max(GateWrites)][3], 15) = 10

RamAccess == args # <<>> /\ args[1] >= \hA000 /\ args[1] <= \hBFFF

\* C22: cartridge RAM answers only after a gate write with the low nibble
\* 0xA that no other gate write followed; in every other state, the one
\* after construction included, a read of 0xA000-0xBFFF returns 0xFF and a
\* write there changes nothing.
C22_RamGate ==
    (console.cartridge.kind = "MBC1" /\ RamAccess /\ ~GateOpened /\ ~console.panicked) =>
        /\ last_call = "read" => ret = \hFF
        /\ last_call = "write" => console = pre

\* C23: with no save file at the start, the RAM of the cartridge constructed
\* again from the save file, after the channel was closed and the worker
\* flushed, equals in every bank and offset the RAM at the time of the close.
C23_BatteryRamRoundTrip ==
    (last_call = "reload" /\ Cardinality(MapperReloads) = 1) =>
        console.cartridge.ram_banks = pre.cartridge.ram_banks

\* Both banks were written, the second byte of bank 0 twice, and came back.
C23_Witness ==
    /\ last_call = "reload"
    /\ Cardinality(MapperReloads) = 1
    /\ Get(console.cartridge.ram_banks[2], 1) # 0
    /\ \E i \in MapperWrites :
            calls[i][2] = \hA001 /\ calls[i][3] # Get(console.cartridge.ram_banks[1], 1)

\* C24: after the persistence worker has failed, a write to cartridge RAM
\* (gate open, bank present) still stores the byte and returns.
C24_WriteSurvivesWorkerFailure ==
    (/\ last_call = "write"
     /\ RamAccess
     /\ pre.cartridge.save_worker = "failed"
     /\ pre.cartridge.ram_enabled
     /\ pre.cartridge.ram_bank_index < Len(pre.cartridge.ram_banks))
        => /\ ~console.panicked
           /\ Get(console.cartridge.ram_banks[pre.cartridge.ram_bank_index + 1],
                  args[1] - \hA000) = args[2]

----------------------------------------------------------------------------
(* Claims about changing the ROM.                                          *)

Running == position[1] = "frame"

\* The console is the power-on console of the cartridge at the path picked.
RestartedWithPickedRom ==
    /\ Running
    /\ ~gbemu.file_changed
    /\ console = GBConsole_new(RomFile(gbemu.rom_file_path[1]))

\* C25: a change-ROM request made while a cartridge runs is eventually
\* observed by the emulation thread: the flag is cleared and the console is
\* the power-on console of the cartridge picked.
C25_ChangeRomObserved == (Running /\ gbemu.file_changed) ~> RestartedWithPickedRom
----------------------------------------------------------------------------
(* Claims about the APU.                                                   *)

\* C26: in every reachable APU state no channel has its enable latch set
\* while its DAC is disabled.
C26_NoEnableWithoutDac ==
    /\ apu.ch_1_enable => apu.dac_1_enable
    /\ apu.ch_2_enable => apu.dac_2_enable
    /\ apu.ch_3_enable => apu.dac_3_enable
    /\ apu.ch_4_enable => apu.dac_4_enable
----------------------------------------------------------------------------
(* Claims about the echo of work RAM.                                      *)

\* The last call was a bus write to work RAM or to its echo.
WorkRamWritten ==
    /\ last_call = "write"
    /\ ~pre.panicked
    /\ args[1] >= \hC000
    /\ args[1] < \hFE00

\* The work-RAM address the written address stands for.
EchoBase == IF args[1] >= \hE000 THEN args[1] - \h2000 ELSE args[1]

\* The memory is as before except, at most, at the offset.
SameExceptAt(after, before, offset) ==
    \A i \in (DOMAIN after \cup DOMAIN before) \ {offset} : Get(after, i) = Get(before, i)

\* C27: a bus write of v at a in 0xC000..0xDDFF, or at a + 0x2000, is read
\* back both at a and at a + 0x2000, and no other work-RAM byte changes.
C27_EchoRamRoundTrip ==
    (WorkRamWritten /\ EchoBase <= \hDDFF) =>
        /\ ~console.panicked
        /\ read(console, EchoBase) = args[2]
        /\ read(console, EchoBase + \h2000) = args[2]
        /\ IF EchoBase < \hD000
             THEN /\ SameExceptAt(console.working_ram, pre.working_ram, EchoBase - \hC000)
                  /\ console.aux_working_ram = pre.aux_working_ram
             ELSE /\ SameExceptAt(console.aux_working_ram, pre.aux_working_ram,
                                  EchoBase - \hD000)
                  /\ console.working_ram = pre.working_ram

\* A nonzero byte written at the last echo address over a nonzero byte at
\* another work-RAM address, and read back at the address it mirrors.
C27_Witness ==
    /\ WorkRamWritten
    /\ args = <<\hFDFF, \h02>>
    /\ read(pre, \hD000) = \h02
    /\ read(console, \hDDFF) = \h02
----------------------------------------------------------------------------
(* Claims about INC r8 and DEC r8.                                         *)

\* INC r8, INC [HL], DEC r8, DEC [HL]
IsIncDecR8(opcode) == block(opcode) = 0 /\ column(opcode) \in {4, 5}

IsDecR8(opcode) == block(opcode) = 0 /\ column(opcode) = 5

\* The operand of the executed INC or DEC as it was before the instruction.
IncDecOperand ==
    IF row(args[1]) = 6 THEN read(pre, HL(pre)) ELSE r8(pre, row(args[1]))

IncDecResult == IF IsDecR8(args[1]) THEN u8(IncDecOperand + 255) ELSE u8(IncDecOperand + 1)

IncDecSetsZeroAndKeepsCarry ==
    (Executed /\ IsIncDecR8(args[1])) =>
        /\ flag_set(console, Z_ZERO_FLAG) <=> (IncDecResult = 0)
        /\ flag_set(console, C_CARRY_FLAG) <=> flag_set(pre, C_CARRY_FLAG)

\* C28: INC r8 / INC [HL] clear N and DEC r8 / DEC [HL] set N, for every
\* operand value; both set Z iff the 8-bit result is zero and leave the
\* carry flag unchanged.
C28_SubtractFlagMirrorsDirection ==
    (Executed /\ IsIncDecR8(args[1])) =>
        /\ flag_set(console, N_SUBTRACTION_FLAG) <=> IsDecR8(args[1])
        /\ flag_set(console, Z_ZERO_FLAG) <=> (IncDecResult = 0)
        /\ flag_set(console, C_CARRY_FLAG) <=> flag_set(pre, C_CARRY_FLAG)
----------------------------------------------------------------------------
(* Claims about the prefixed rotates and shifts.                           *)

\* The executed instruction was a prefixed RLC, RRC, RL, RR, SLA, SRA, SWAP
\* or SRL; args[2] is the byte behind the prefix.
PrefixedShiftExecuted == Executed /\ args[1] = PREFIX /\ block(args[2]) = 0

\* The value the instruction left in its register or at [HL].
WrittenBack == prefixed_operand(console, column(args[2]))

\* C29: for every prefixed rotate or shift, the zero flag is set iff the
\* 8-bit result written back to the register or to [HL] is zero.
C29_ZeroFlagOfShiftResult ==
    PrefixedShiftExecuted => (flag_set(console, Z_ZERO_FLAG) <=> (WrittenBack = 0))
----------------------------------------------------------------------------
(* Claims about the PPU's mode.                                            *)

\* The program has written nothing since power-on: the LCD is enabled as
\* PPU::new left it.
LcdEnabledFromPowerOn == PpuWriteCount = 0 /\ console.ppu.lcdc_7_lcd_enabled

\* The mode changes the claim allows from one state to the next.
ModeChangeAllowed ==
    LET mode == console.ppu.ppu_mode
        next_mode == console'.ppu.ppu_mode
        ly == console.ppu.ly
        next_ly == console'.ppu.ly
    IN  \/ next_mode = mode
        \/ mode = PPU_MODE_2_OAM_SCAN /\ next_mode = PPU_MODE_3_DRAW_PIXELS
        \/ mode = PPU_MODE_3_DRAW_PIXELS /\ next_mode = PPU_MODE_0_HBLANK
        \/ /\ mode = PPU_MODE_0_HBLANK /\ next_mode = PPU_MODE_2_OAM_SCAN
           /\ next_ly = ly + 1 /\ next_ly < 144
        \/ mode = PPU_MODE_0_HBLANK /\ next_mode = PPU_MODE_1_VBLANK /\ next_ly = 144
        \/ /\ mode = PPU_MODE_1_VBLANK /\ next_mode = PPU_MODE_2_OAM_SCAN
           /\ ly = 153 /\ next_ly = 0

\* The first half of C30: only the allowed mode changes happen.
OnlyAllowedModeChanges == [][LcdEnabledFromPowerOn' => ModeChangeAllowed]_vars

\* C30: with the LCD enabled from power-on, in every reachable state the mode
\* is V-blank exactly when LY is in 144..153 (so every V-blank period lasts
\* exactly 10 scanlines).
C30_VBlankExactlyOnLines144To153 ==
    LcdEnabledFromPowerOn =>
        (console.ppu.ppu_mode = PPU_MODE_1_VBLANK <=> console.ppu.ly \in 144..153)
----------------------------------------------------------------------------
(* Claims about the OAM scan.                                              *)

\* The last update was made in OAM-scan mode on an even dot.
OamEntryInspected ==
    /\ Ticked
    /\ pre.ppu.ppu_mode = PPU_MODE_2_OAM_SCAN
    /\ pre.ppu.dot_counter % 2 = 0

\* The OAM entry the claim has inspected on that dot, and its address.
InspectedEntry == pre.ppu.dot_counter \div 2

InspectedAddress == 4 * InspectedEntry

\* The line lies within the vertical extent of the inspected object:
\* y <= LY + 16 < y + h.
InExtent ==
    LET y == Get(pre.ppu.object_attribute_memory, InspectedAddress)
        h == IF pre.ppu.lcdc_2_obj_is_tall THEN 16 ELSE 8
    IN  y <= pre.ppu.ly + 16 /\ pre.ppu.ly + 16 < y + h

\* OAM scan lasts dots 0..79, so the entries inspected are 0..39.
ScanCoversOam ==
    console.ppu.ppu_mode = PPU_MODE_2_OAM_SCAN => console.ppu.dot_counter < 80

BufferBounded == Len(console.ppu.obj_buffer) <= 10

\* C31: OAM-scan inspects one entry every 2 dots in index order, and adds
\* entry i to the candidate buffer iff the line lies within the object's
\* vertical extent and the buffer holds fewer than 10 entries; the buffer
\* never holds more than 10 entries.
C31_OamScanSelects ==
    /\ BufferBounded
    /\ ScanCoversOam
    /\ OamEntryInspected =>
            console.ppu.obj_buffer =
                IF InExtent /\ Len(pre.ppu.obj_buffer) < 10
                THEN Append(pre.ppu.obj_buffer, InspectedAddress)
                ELSE pre.ppu.obj_buffer
----------------------------------------------------------------------------
(* Claims about pixel mixing.                                              *)

\* The last update wrote a pixel: in pixel-transfer mode LX moves only when
\* a pixel is written (ppu.rs:334), and the end of the line resets it.
PixelWritten ==
    /\ Ticked
    /\ pre.ppu.ppu_mode = PPU_MODE_3_DRAW_PIXELS
    /\ console.ppu.lx # pre.ppu.lx

\* The PPU of the last update when its fetchers had run and the pixel was
\* about to be mixed.
BeforeMixing == obj_fetch(bg_fetch(pre.ppu))

ScreenAt(ppu, ly, lx) ==
    IF <<ly, lx>> \in DOMAIN ppu.screen THEN ppu.screen[<<ly, lx>>] ELSE BlankPixel

ObjectPixelAvailable == BeforeMixing.obj_fifo # <<>>

\* The object pixel wins over the background pixel.
ObjectPixelShown ==
    /\ ObjectPixelAvailable
    /\ pre.ppu.lcdc_1_obj_enable
    /\ Head(BeforeMixing.obj_fifo).color # 0
    /\ ~(Head(BeforeMixing.obj_fifo).bg_priority[1] /\ Head(BeforeMixing.bg_fifo).color # 0)

\* C32: the pixel written to the frame buffer at (LY, LX) is the object
\* pixel iff an object pixel is available, objects are enabled, its colour
\* is not 0 and it is not hidden by background priority over a non-zero
\* background colour; otherwise it is the background pixel.  Every such
\* write has LY < 144 and LX < 160.
C32_PixelMixing ==
    PixelWritten =>
        /\ pre.ppu.ly < 144
        /\ pre.ppu.lx < 160
        /\ ScreenAt(console.ppu, pre.ppu.ly, pre.ppu.lx) =
                IF ObjectPixelShown THEN Head(BeforeMixing.obj_fifo)
                ELSE Head(BeforeMixing.bg_fifo)

\* An object pixel of non-zero colour with background priority met a
\* non-zero background pixel, and the background pixel was written.
C32_Witness ==
    /\ PixelWritten
    /\ ObjectPixelAvailable
    /\ pre.ppu.lcdc_1_obj_enable
    /\ Head(BeforeMixing.obj_fifo).color # 0
    /\ Head(BeforeMixing.obj_fifo).bg_priority[1]
    /\ Head(BeforeMixing.bg_fifo).color # 0
    /\ ScreenAt(console.ppu, pre.ppu.ly, pre.ppu.lx) = Head(BeforeMixing.bg_fifo)
----------------------------------------------------------------------------
(* Claims about the frequency sweep of channel 1.                          *)

SweepPace == BitAnd(apu.ch_1_0_sweep \div 16, 7)

SweepShift == BitAnd(apu.ch_1_0_sweep, 7)

\* period +/- (period >> s)
Swept(period) ==
    IF BitAnd(apu.ch_1_0_sweep, 8) = 0
    THEN period + period \div (2 ^ SweepShift)
    ELSE period - period \div (2 ^ SweepShift)

\* The k-th sweep tick after the trigger is entry k + 1 of calls; it is a
\* recomputation when k is a multiple of the pace and the channel was
\* enabled before it.
Recomputation(k) == k % SweepPace = 0 /\ calls[k][3]

TriggeredWithSweep ==
    /\ position[1] = "run"
    /\ SweepPace # 0
    /\ SweepShift # 0

\* C33: after a trigger with non-zero sweep pace p and non-zero shift s, the
\* period is recomputed as period +/- (period >> s) every p sweep ticks, and
\* the channel is disabled at the first recomputation whose result exceeds
\* 0x7FF.
C33_SweepRecomputesPeriod ==
    TriggeredWithSweep =>
        \A k \in 1..(Len(calls) - 1) :
            IF Recomputation(k)
            THEN IF Swept(calls[k][2]) > \h7FF THEN ~calls[k + 1][3]
                 ELSE calls[k + 1][2] = Swept(calls[k][2]) /\ calls[k + 1][3]
            ELSE calls[k + 1][2] = calls[k][2] /\ calls[k + 1][3] = calls[k][3]

\* What the sweep ticks do instead: nothing.
SweepNeverActs ==
    TriggeredWithSweep =>
        \A k \in 1..(Len(calls) - 1) :
            calls[k + 1][2] = calls[k][2] /\ calls[k + 1][3] = calls[k][3]

----------------------------------------------------------------------------
(* Claims about the sample output of the APU.                              *)

\* The last step was an update_apu call that sent something.
SampleSent == last_call = "update_apu" /\ ret # <<>>

\* The master enable was switched off and on again and a pair was sent
\* afterwards.
SentAfterOffAndOn ==
    /\ SampleSent
    /\ apu.ch_5_2_enable
    /\ position[2] >= 2

\* C34: update_apu sends one left/right pair on every R-th call, R being
\* gb_sample_rate, and nothing on the other calls: after n calls the channel
\* holds 2 * (n div R) samples, whatever was written to the registers in
\* between (the master enable switched off and on included); a pair sent
\* while the master enable is off is silence.
C34_SamplesAtFixedRate ==
    /\ Len(calls) = 2 * (cycles_run \div apu.gb_sample_rate)
    /\ SampleSent => Len(ret) = 2
    /\ SampleSent /\ ~apu.ch_5_2_enable => ret = <<0, 0>>

\* Once the sample counter has passed the ratio, which it does on the call
\* after a silence pair, update_apu sends nothing.
NothingSentPastRatio == apu.gb_sample_counter > apu.gb_sample_rate => ~SampleSent

----------------------------------------------------------------------------
(* Claims about the rate of the programmable timer.                        *)

TimerEnabled == BitAnd(console.timer_control, 4) # 0

\* The number of update_timer calls per increment that the clock select
\* stands for.
CallsPerIncrement ==
    CASE BitAnd(console.timer_control, 3) = 0 -> 256
      [] BitAnd(console.timer_control, 3) = 1 -> 4
      [] BitAnd(console.timer_control, 3) = 2 -> 16
      [] OTHER -> 64

\* The increments logged so far are CallsPerIncrement calls apart, the first
\* comes within the first CallsPerIncrement calls and fewer than
\* CallsPerIncrement calls have passed since the last.
EvenlySpaced ==
    /\ \A i \in 1..(Len(calls) - 1) : calls[i + 1] - calls[i] = CallsPerIncrement
    /\ calls # <<>> => calls[1] <= CallsPerIncrement
    /\ cycles_run - (IF calls = <<>> THEN 0 ELSE calls[Len(calls)]) < CallsPerIncrement

\* C35: with the timer enabled the counter increments exactly once every
\* 256, 4, 16 or 64 update_timer calls for clock select 0, 1, 2, 3 (as long
\* as the divider is not written); with the timer disabled it never
\* increments; the divider advances by one on every call and a write of
\* 0xFF04 sets it to 0.
C35_TimerRate ==
    /\ TimerEnabled /\ position[2] = 0 => EvenlySpaced
    /\ ~TimerEnabled => calls = <<>>
    /\ last_call = "update_timer" => console.timer_divider = u16(pre.timer_divider + 1)
    /\ last_call = "write" => console.timer_divider = 0

\* The same with clock select 1 left out.
RateOfOtherClockSelects == BitAnd(console.timer_control, 3) # 1 => C35_TimerRate

\* With clock select 1 the counter increments on exactly the calls that
\* leave bit 2 of the divider clear: four calls in a row out of every eight.
ClockSelectOneFollowsBitTwo ==
    TimerEnabled /\ BitAnd(console.timer_control, 3) = 1 /\ last_call = "update_timer" =>
        ((calls # <<>> /\ calls[Len(calls)] = cycles_run)
            <=> BitAnd(console.timer_divider, 4) = 0)

----------------------------------------------------------------------------
(* Claims about the V-blank interrupt request.                             *)

VBlankRequested(C) == BitAnd(C.interrupt_flag, 1) # 0

\* The update_ppu call just made took the PPU into V-blank.
EnteredVBlank ==
    /\ last_call = "update_ppu"
    /\ PPU_get_mode(pre.ppu) # 1
    /\ PPU_get_mode(console.ppu) = 1

\* The calls of handle_interrupt logged so far that serviced an interrupt
\* (it returns 20, console.rs:342-378).
Services == {i \in 1..Len(calls) : calls[i][2] = "handle_interrupt" /\ calls[i][3] = 20}

\* The PPU has been in V-blank since power-on.
InFirstVBlank == PPU_get_mode(console.ppu) = 1 /\ ~EnteredVBlank

\* C36: once IF bit 0 is clear (the V-blank interrupt was serviced, or the
\* program cleared the bit) an update_ppu call that does not take the PPU
\* into V-blank leaves it clear, and one V-blank period sees at most one
\* service of vector 0x0040, the handler returning with RETI included.
C36_OneRequestPerVBlank ==
    /\ last_call = "update_ppu" /\ ~VBlankRequested(pre) /\ ~EnteredVBlank
            => ~VBlankRequested(console)
    /\ InFirstVBlank => Cardinality(Services) <= 1

\* After every update_ppu call IF bit 0 is set exactly if the PPU is in
\* V-blank: the request is the level of the mode, made again on every dot.
VBlankFlagFollowsMode ==
    last_call = "update_ppu" => (VBlankRequested(console) <=> PPU_get_mode(console.ppu) = 1)

----------------------------------------------------------------------------
(* Claims about the RAM bank select of the MBC1 mapper.                    *)

\* The last call was an access of cartridge RAM with the RAM gate open.
EnabledRamAccess ==
    /\ last_call \in {"read", "write"}
    /\ args[1] >= \hA000
    /\ args[1] <= \hBFFF
    /\ pre.cartridge.ram_enabled

\* C37: whatever was written to 0x4000-0x5FFF, the selected RAM bank index
\* is below the number of RAM banks of the cartridge, and an enabled access
\* of 0xA000-0xBFFF does not index past the banks.
C37_RamBankIndexInRange ==
    /\ console.cartridge.ram_bank_index < Len(console.cartridge.ram_banks)
    /\ EnabledRamAccess =>
            ~(console.panicked /\ pre.cartridge.ram_bank_index >= Len(pre.cartridge.ram_banks))

\* The index is the low two bits of the last value written to the range.
RamBankIndexIsLowBits ==
    last_call = "write" /\ args[1] >= \h4000 /\ args[1] <= \h5FFF /\ ~console.panicked =>
        console.cartridge.ram_bank_index = BitAnd(args[2], 3)

----------------------------------------------------------------------------
(* Claims about the halted CPU in the cycle loop.                          *)

CpuRegisters(C) ==
    <<C.a, C.b, C.c, C.d, C.e, C.h, C.l, C.flags, C.stack_pointer, C.program_counter>>

\* handle_interrupt was called on a halted CPU and left it halted: it
\* neither woke the CPU nor serviced an interrupt.
HaltedCheck == last_call = "handle_interrupt" /\ pre.is_halted /\ console.is_halted

\* The calls of a cycle that come after the instruction slot, and the slot
\* left empty.
AdvancesDevices ==
    last_call \in {"update_timer", "update_ppu", "check_serial", "update_apu", "none"}

\* C38: execute_instruction is never called on a halted CPU; a check of the
\* interrupts that leaves the CPU halted returns 0 and takes the delay
\* counter to 255, so that the instruction slot of the cycle stays empty and
\* the next cycle checks the interrupts again; timer, PPU, serial and APU
\* steps leave the CPU registers and the program counter as they were.
C38_HaltedCpuExecutesNothing ==
    /\ last_call = "execute_instruction" => ~pre.is_halted
    /\ HaltedCheck =>
            /\ ret = 0
            /\ cpu_delay = 255
            /\ CpuRegisters(console) = CpuRegisters(pre)
    /\ console.is_halted /\ ~console.panicked => cpu_delay = 255
    /\ AdvancesDevices => CpuRegisters(console) = CpuRegisters(pre)

\* A whole cycle went by with the CPU halted: the check of the previous
\* cycle returned 0, nothing was executed in it, and the loop is back at the
\* check.
C38_Witness ==
    /\ console.is_halted
    /\ position = <<"interrupt", 0>>
    /\ cycles_run >= 2
    /\ \E i \in 1..Len(calls) : calls[i] = <<cycles_run - 1, "handle_interrupt", 0>>
    /\ \A i \in 1..Len(calls) :
            calls[i][1] = cycles_run - 1 => calls[i][2] # "execute_instruction"
    /\ \E i \in 1..Len(calls) : calls[i] = <<cycles_run - 1, "update_apu", 0>>

----------------------------------------------------------------------------
(* Claims about the save file over several sessions.                       *)

\* The RAM banks that a mapper constructed now would load from the save
\* file as the worker has written it.
RamInSaveFile ==
    [i \in 1..Len(console.cartridge.ram_banks) |->
        load_ram_bank(console.cartridge.save_file, i - 1)]

\* C39: a mapper that was constructed from an existing save file, closed and
\* constructed again holds the RAM it held at the close, and once the worker
\* has flushed, the save file holds every byte of the cartridge RAM.
C39_SaveFileHoldsWholeRam ==
    /\ last_call = "reload" /\ Cardinality(MapperReloads) >= 2 =>
            console.cartridge.ram_banks = pre.cartridge.ram_banks
    /\ console.cartridge.save_worker = "flushed" =>
            RamInSaveFile = console.cartridge.ram_banks

\* After the flush the save file holds the bytes written in the session that
\* ends, at their addresses, and nothing else.
SaveFileHoldsSessionWrites ==
    console.cartridge.save_worker = "flushed" =>
        \A at \in DOMAIN console.cartridge.save_file :
            \E i \in MapperWrites :
                /\ calls[i][2] >= \hA000
                /\ calls[i][3] = console.cartridge.save_file[at]
                /\ \A j \in MapperReloads : j < i

----------------------------------------------------------------------------
(* Claims about the start of pixel transfer.                               *)

\* The update_ppu call just made ended the OAM scan of a line.
PixelTransferStarts ==
    /\ last_call = "update_ppu"
    /\ pre.ppu.ppu_mode = PPU_MODE_2_OAM_SCAN
    /\ console.ppu.ppu_mode = PPU_MODE_3_DRAW_PIXELS

\* The test of the OAM scan (ppu.rs:218-225) on the object at an OAM address,
\* for the current line.
SelectedForLine(ppu, obj_address) ==
    LET obj_y == u8(Get(ppu.object_attribute_memory, obj_address) - 16)
        obj_height == IF ppu.lcdc_2_obj_is_tall THEN 16 ELSE 8
    IN  ppu.ly >= obj_y /\ ppu.ly < u8(obj_height + obj_y)

CleanRenderingState(ppu) ==
    /\ ppu.lx = 0
    /\ ppu.bg_fifo = <<>>
    /\ ppu.obj_fifo = <<>>
    /\ ppu.mode_3_penalty = 0
    /\ \A i \in 1..Len(ppu.obj_buffer) : SelectedForLine(ppu, ppu.obj_buffer[i])

\* C40: every pixel-transfer period starts with LX = 0, both FIFOs empty, no
\* pending penalty and a candidate buffer of objects that the scan of the
\* current line selects, the first line after the display was switched off
\* in the middle of a scanline and on again included.
C40_PixelTransferStartsClean == PixelTransferStarts => CleanRenderingState(console.ppu)

\* The program switched the display off during pixel transfer.
SwitchedOffInPixelTransfer ==
    \E i \in 1..Len(calls) : calls[i] = <<"write", 70324>>

\* Without a write during pixel transfer the period starts clean.
StartsCleanUnlessWrittenInPixelTransfer ==
    ~SwitchedOffInPixelTransfer => C40_PixelTransferStartsClean

============================================================================
